---------------------------- MODULE Spec2Model ----------------------------
(***************************************************************************)
(* State-machine model of the iot-bindings-node binding elements:          *)
(*   - HTMLIoTOHubX24ColorBindingElement   (color output, mutex-guarded)   *)
(*   - HTMLIoTIHubX24ButtonBindingElement  (digital input, line reassembly)*)
(*   - HTMLIoTIOBitsLockBindingElement     (bidirectional single channel)  *)
(*   - HTMLIoTOTextMessageBindingElement   (raw message output; the LCD    *)
(*     message binding has the same code)                                  *)
(*   - HTMLIoTOTextAttributeBindingElement (keyed attribute output)        *)
(* and of _parseColorsChannel taken alone over every attribute text.       *)
(*                                                                         *)
(* JavaScript strings are modelled as sequences of one-character strings.  *)
(* A JavaScript number is modelled as the 1-tuple <<n>>, NaN as <<>>.      *)
(***************************************************************************)
EXTENDS Integers, Sequences, FiniteSets, TLC

(***************************************************************************)
(* Bounds of the model.                                                    *)
(***************************************************************************)
\* Number of style-change notifications delivered to the color binding.
MaxNotifs == 2
\* Highest channel index of an element associated with the color binding.
MaxIndex == 2
\* Total number of characters the lock device delivers to the lock binding.
MaxLockInput == 2
\* Number of attribute changes the application makes on lock elements.
MaxLockChanges == 2
\* Total number of characters the input device delivers to the button binding.
MaxStream == 6
\* Longest chunk the input device delivers in one read callback.
MaxChunk == 2
\* Largest number of ";"-separated entries of a colors-channel attribute.
MaxEntries == 3
\* Number of attribute changes the application makes on the elements of a
\* text binding.
MaxTextChanges == 2

(***************************************************************************)
(* String helpers (String.prototype.trim / toLowerCase / split, parseInt,  *)
(* Number.prototype.toString).                                             *)
(***************************************************************************)
Whitespace == {" ", "\t", "\n", "\r"}

UpperChars == <<"A","B","C","D","E","F","G","H","I","J","K","L","M",
                "N","O","P","Q","R","S","T","U","V","W","X","Y","Z">>
LowerChars == <<"a","b","c","d","e","f","g","h","i","j","k","l","m",
                "n","o","p","q","r","s","t","u","v","w","x","y","z">>
DigitChars == <<"0","1","2","3","4","5","6","7","8","9">>

ToLowerChar(c) ==
    IF \E i \in 1..Len(UpperChars) : UpperChars[i] = c
    THEN LowerChars[CHOOSE i \in 1..Len(UpperChars) : UpperChars[i] = c]
    ELSE c

ToLowerCase(s) == [i \in 1..Len(s) |-> ToLowerChar(s[i])]

RECURSIVE TrimStart(_)
TrimStart(s) ==
    IF s # <<>> /\ Head(s) \in Whitespace THEN TrimStart(Tail(s)) ELSE s

RECURSIVE TrimEnd(_)
TrimEnd(s) ==
    IF s # <<>> /\ s[Len(s)] \in Whitespace
    THEN TrimEnd(SubSeq(s, 1, Len(s) - 1)) ELSE s

Trim(s) == TrimEnd(TrimStart(s))

\* s.split(sep) for a one-character separator: empty segments are kept and
\* the empty string splits into one empty segment.
RECURSIVE SplitChar(_, _)
SplitChar(s, sep) ==
    IF \E i \in 1..Len(s) : s[i] = sep
    THEN LET i == CHOOSE k \in 1..Len(s) :
                      s[k] = sep /\ \A j \in 1..(k - 1) : s[j] # sep
         IN  <<SubSeq(s, 1, i - 1)>> \o SplitChar(SubSeq(s, i + 1, Len(s)), sep)
    ELSE <<s>>

IsDigit(c) == \E i \in 1..Len(DigitChars) : DigitChars[i] = c
DigitValue(c) == (CHOOSE i \in 1..Len(DigitChars) : DigitChars[i] = c) - 1

\* Value of the longest prefix of digits of s, continuing from acc.
RECURSIVE DigitsPrefix(_, _)
DigitsPrefix(s, acc) ==
    IF s # <<>> /\ IsDigit(Head(s))
    THEN DigitsPrefix(Tail(s), 10 * acc + DigitValue(Head(s)))
    ELSE acc

NaN == <<>>
Num(n) == <<n>>
IsNaN(x) == x = <<>>

\* parseInt(s): leading whitespace skipped, optional sign, then the longest
\* run of decimal digits; NaN when there is no digit.  (A "0x" prefix, which
\* parseInt reads as hexadecimal, is not among the texts of this model.)
ParseInt(s) ==
    LET t    == TrimStart(s)
        neg  == t # <<>> /\ Head(t) = "-"
        sign == t # <<>> /\ Head(t) \in {"-", "+"}
        body == IF sign THEN Tail(t) ELSE t
    IN  IF body = <<>> \/ ~IsDigit(Head(body)) THEN NaN
        ELSE IF neg THEN Num(0 - DigitsPrefix(body, 0))
        ELSE Num(DigitsPrefix(body, 0))

RECURSIVE NatToString(_)
NatToString(n) ==
    IF n < 10 THEN <<DigitChars[n + 1]>>
    ELSE NatToString(n \div 10) \o <<DigitChars[(n % 10) + 1]>>

\* Number.prototype.toString() of an integer or NaN.
NumToString(x) ==
    IF IsNaN(x) THEN <<"N", "a", "N">>
    ELSE IF x[1] < 0 THEN <<"-">> \o NatToString(0 - x[1])
    ELSE NatToString(x[1])


(***************************************************************************)
(* JavaScript number arithmetic and comparison: any operation on NaN gives *)
(* NaN and any comparison with NaN is false.                               *)
(***************************************************************************)
JsAdd(a, b) == IF IsNaN(a) \/ IsNaN(b) THEN NaN ELSE Num(a[1] + b[1])
JsSub(a, b) == IF IsNaN(a) \/ IsNaN(b) THEN NaN ELSE Num(a[1] - b[1])
JsMul(a, b) == IF IsNaN(a) \/ IsNaN(b) THEN NaN ELSE Num(a[1] * b[1])
JsLe(a, b) == ~IsNaN(a) /\ ~IsNaN(b) /\ a[1] <= b[1]
JsGe(a, b) == ~IsNaN(a) /\ ~IsNaN(b) /\ a[1] >= b[1]

(***************************************************************************)
(* Texts used as attribute values, property names and property values.    *)
(***************************************************************************)
S_white == <<"w","h","i","t","e">>
S_blue  == <<"b","l","u","e">>
S_red   == <<"r","e","d">>
S_Blue_padded == <<" ","B","l","u","e">>
S_color == <<"c","o","l","o","r">>
S_background == <<"b","a","c","k","g","r","o","u","n","d">>

\* "white:0;blue:1"
CC_white0_blue1 == S_white \o <<":","0",";">> \o S_blue \o <<":","1">>
\* "white:0;blue:2"
CC_white0_blue2 == S_white \o <<":","0",";">> \o S_blue \o <<":","2">>
\* "white;Blue:1" (mixed format, upper-case letter)
CC_white_Blue1 == S_white \o <<";","B","l","u","e",":","1">>
\* "White:0;BLUE:1" (upper-case letters in the names)
CC_White0_BLUE1 == <<"W","h","i","t","e",":","0",";","B","L","U","E",":","1">>
\* "white:-1;blue:0"
CC_whiteNeg1_blue0 == S_white \o <<":","-","1",";">> \o S_blue \o <<":","0">>

(***************************************************************************)
(* HTMLIoTOHubX24ColorBindingElement: configuration parsing.               *)
(***************************************************************************)
\* Variant: the text after ":" is compared as written, without trim().
ColorEntry_IndexNotTrimmed(entry) ==
    LET parts == SplitChar(entry, ":")
    IN  IF Len(parts) = 2
        THEN LET index == ParseInt(parts[2])
             IN  IF ~IsNaN(index) /\ parts[2] = NumToString(index)
                 THEN [color |-> Trim(parts[1]), index |-> index]
                 ELSE [color |-> Trim(parts[1]), index |-> <<>>]
        ELSE [color |-> entry, index |-> <<>>]

\* One parsed entry of colors-channel: index is <<n>> when the entry carries
\* a valid integer index and <<>> (undefined) otherwise.
ColorEntry(entry) ==
    IF \E i \in 1..Len(entry) : entry[i] = ":"
    THEN LET parts == SplitChar(entry, ":")
         IN  IF Len(parts) = 2
             THEN LET color    == Trim(parts[1])
                      indexStr == Trim(parts[2])
                      index    == ParseInt(indexStr)
                  IN  IF ~IsNaN(index) /\ indexStr = NumToString(index)
                      THEN [color |-> color, index |-> index]
                      ELSE [color |-> color, index |-> <<>>]
             ELSE [color |-> entry, index |-> <<>>]
    ELSE [color |-> entry, index |-> <<>>]

\* The loop of _parseColorsChannel over the split attribute: the trimmed,
\* non-empty entries in declaration order.
RECURSIVE ColorEntries(_)
ColorEntries(segments) ==
    IF segments = <<>> THEN <<>>
    ELSE LET entry == Trim(Head(segments))
         IN  IF Len(entry) = 0 THEN ColorEntries(Tail(segments))
             ELSE <<ColorEntry(entry)>> \o ColorEntries(Tail(segments))

\* Variant: an entry that declares an index keeps it in every mode.
RECURSIVE AssignColors_DeclaredKept(_, _, _, _)
AssignColors_DeclaredKept(map, entries, i, explicit) ==
    IF i > Len(entries) THEN map
    ELSE LET key == ToLowerCase(entries[i].color)
             val == IF entries[i].index # <<>> THEN entries[i].index[1]
                    ELSE i - 1
         IN  AssignColors_DeclaredKept((key :> val) @@ map, entries, i + 1,
                                       explicit)

\* Variant: the sequential assignment counts from 1.
RECURSIVE AssignColors_FromOne(_, _, _, _)
AssignColors_FromOne(map, entries, i, explicit) ==
    IF i > Len(entries) THEN map
    ELSE LET key == ToLowerCase(entries[i].color)
             val == IF explicit THEN entries[i].index[1] ELSE i
         IN  AssignColors_FromOne((key :> val) @@ map, entries, i + 1, explicit)

\* Assigns the entries to the map in order, a later key overwriting an
\* earlier one; explicit chooses the declared index, else the position.
RECURSIVE AssignColors(_, _, _, _)
AssignColors(map, entries, i, explicit) ==
    IF i > Len(entries) THEN map
    ELSE LET key == ToLowerCase(entries[i].color)
             val == IF explicit THEN entries[i].index[1] ELSE i - 1
         IN  AssignColors((key :> val) @@ map, entries, i + 1, explicit)

\* Variant: the empty attribute is parsed like any other text.
ParseColorsChannel_NoDefault(map, colorsChannel) ==
    [map |-> AssignColors(map, ColorEntries(SplitChar(colorsChannel, ";")),
                          1, FALSE),
     warned |-> FALSE]

\* _parseColorsChannel: the resulting map and whether the mixed-format
\* warning is emitted.  An absent attribute is the empty text.
ParseColorsChannel(map, colorsChannel) ==
    IF colorsChannel = <<>>
    THEN [map |-> (S_white :> 0) @@ map, warned |-> FALSE]
    ELSE LET colorEntries    == ColorEntries(SplitChar(colorsChannel, ";"))
             allHaveIndices  == \A i \in 1..Len(colorEntries) :
                                    colorEntries[i].index # <<>>
             someHaveIndices == \E i \in 1..Len(colorEntries) :
                                    colorEntries[i].index # <<>>
         IN  IF allHaveIndices /\ Len(colorEntries) > 0
             THEN [map |-> AssignColors(map, colorEntries, 1, TRUE),
                   warned |-> FALSE]
             ELSE [map |-> AssignColors(map, colorEntries, 1, FALSE),
                   warned |-> someHaveIndices /\ ~allHaveIndices]

\* _parseChannelsPerElement: an absent attribute keeps the current value.
ParseChannelsPerElement(current, channelsPerElement) ==
    IF channelsPerElement = <<>> THEN current ELSE ParseInt(channelsPerElement)

\* s.split(/\s+/)
RECURSIVE SplitWhitespace(_)
SplitWhitespace(s) ==
    IF \E i \in 1..Len(s) : s[i] \in Whitespace
    THEN LET i == CHOOSE k \in 1..Len(s) :
                      s[k] \in Whitespace /\ \A j \in 1..(k - 1) : s[j] \notin Whitespace
         IN  <<SubSeq(s, 1, i - 1)>>
                 \o SplitWhitespace(TrimStart(SubSeq(s, i, Len(s))))
    ELSE <<s>>

\* _parseColorPropertyNames
ParseColorPropertyNames(colorPropertyNames) ==
    IF colorPropertyNames = <<>> THEN <<S_color>>
    ELSE LET names == SelectSeq(SplitWhitespace(Trim(colorPropertyNames)),
                                LAMBDA name : Len(name) > 0)
         IN  IF Len(names) = 0 THEN <<S_color>> ELSE names

\* Variant: the location is not looked at.
ValidateAttributes_IdOnly(attrs) == attrs.id # ""

\* _validateAttributes
ValidateAttributes(attrs) == attrs.id # "" /\ attrs.location # ""


(***************************************************************************)
(* State.                                                                  *)
(***************************************************************************)
VARIABLES
    \* ---- HTMLIoTOHubX24ColorBindingElement ----
    oc_attrs,              \* attributes declared on the binding element
    oc_elements,           \* this.elements: the associated channel indices
    oc_loaded,             \* the load event was dispatched
    oc_deviceFile,         \* this._deviceFile is set
    oc_channelsPerElement, \* this._channelsPerElement (a JavaScript number)
    oc_colorsChannel,      \* this._colorsChannel
    oc_colorPropertyNames, \* this._colorPropertyNames
    oc_warned,             \* the mixed-format warning was logged
    oc_data,               \* this._data: the array elements
    oc_dataProps,          \* this._data: properties that are no array index
    oc_mtxLocked,          \* this._mtx is held
    oc_mtxQueue,           \* lock() calls whose callback did not run yet
    oc_inCS,               \* notifications between lock grant and their unlock
    oc_inflight,           \* writes issued to the device file, not completed
    oc_transmitted,        \* every line handed to prepareWrite, in order
    oc_device,             \* the last line the device received
    oc_count,              \* notifications that requested the lock so far
    oc_last,               \* the notification that ran the callback last
    oc_failed,             \* notifications whose write ended in error
    oc_unlocks,            \* how often each notification called unlock()
    oc_seqData,            \* the vector of the one-at-a-time execution
    oc_seqProps,
    oc_seqLines            \* the lines of the one-at-a-time execution

ocVars == <<oc_attrs, oc_elements, oc_loaded, oc_deviceFile,
            oc_channelsPerElement, oc_colorsChannel, oc_colorPropertyNames,
            oc_warned, oc_data, oc_dataProps, oc_mtxLocked, oc_mtxQueue,
            oc_inCS, oc_inflight, oc_transmitted, oc_device, oc_count,
            oc_last, oc_failed, oc_unlocks, oc_seqData, oc_seqProps,
            oc_seqLines>>

VARIABLES
    \* ---- HTMLIoTIHubX24ButtonBindingElement ----
    ib_attrs,     \* attributes declared on the binding element
    ib_elements,  \* this.elements: the associated channel indices
    ib_loaded,    \* the load event was dispatched
    ib_reading,   \* the read of the device file was started
    ib_buffer,    \* buffer: the unterminated rest of the chunks read
    ib_data,      \* this._data: the previous line
    ib_stream,    \* every character the device delivered, in order
    ib_lines,     \* every line handed to _onData, in order
    ib_events,    \* every event dispatched, in order
    ib_writes     \* every payload handed to prepareWrite: the class has no
                  \* call of it

ibVars == <<ib_attrs, ib_elements, ib_loaded, ib_reading, ib_buffer, ib_data,
            ib_stream, ib_lines, ib_events, ib_writes>>

VARIABLES
    \* ---- HTMLIoTIOBitsLockBindingElement ----
    lk_attrs,      \* attributes declared on the binding element
    lk_elements,   \* this.elements: the associated channel indices
    lk_locked,     \* the associated elements that have the locked attribute
    lk_loaded,     \* the load event was dispatched
    lk_deviceFile, \* this._deviceFile is set
    lk_warned,     \* the shared-device warning was logged
    lk_data,       \* this._data: '' or the last symbol written
    lk_buffer,     \* buffer: the unterminated rest of the chunks read
    lk_notifs,     \* attribute changes the document model has yet to notify
    lk_writes,     \* every payload handed to prepareWrite, in order
    lk_received,   \* number of characters the device delivered
    lk_changes,    \* number of attribute changes made by the application
    lk_lastIn,     \* the last call of _onData
    lk_lastOut     \* the last call of _updateLockState past the file check

lkVars == <<lk_attrs, lk_elements, lk_locked, lk_loaded, lk_deviceFile,
            lk_warned, lk_data, lk_buffer, lk_notifs, lk_writes, lk_received,
            lk_changes, lk_lastIn, lk_lastOut>>

VARIABLES
    \* ---- _parseColorsChannel of a color binding, taken alone ----
    pc_present,        \* the binding element has a colors-channel attribute
    pc_entries,        \* the entries the author wrote, in declaration order
    pc_attr,           \* the attribute's text: the entries joined by ";"
    pc_colorsChannel,  \* this._colorsChannel
    pc_warned,         \* the mixed-format warning was logged
    pc_parsed          \* _parseColorsChannel returned

pcVars == <<pc_present, pc_entries, pc_attr, pc_colorsChannel, pc_warned,
            pc_parsed>>

VARIABLES
    \* ---- HTMLIoTOTextMessageBindingElement, HTMLIoTLCDMessageBindingElement ----
    tm_attrs,          \* attributes declared on the binding element
    tm_elements,       \* this.elements: the associated channel indices
    tm_message,        \* the message attribute of each associated element
    tm_loaded,         \* the load event was dispatched
    tm_deviceFile,     \* this._deviceFile is set
    tm_currentMessage, \* this._currentMessage
    tm_notifs,         \* attribute changes the document model has yet to notify
    tm_writes,         \* every payload handed to prepareWrite, in order
    tm_sent,           \* the text whose payload was handed to prepareWrite last
    tm_changes,        \* number of attribute changes made by the application
    tm_last            \* the last call of elementAttributeModified

tmVars == <<tm_attrs, tm_elements, tm_message, tm_loaded, tm_deviceFile,
            tm_currentMessage, tm_notifs, tm_writes, tm_sent, tm_changes,
            tm_last>>

VARIABLES
    \* ---- HTMLIoTOTextAttributeBindingElement ----
    ta_attrs,         \* attributes declared on the binding element
    ta_elements,      \* this.elements: the associated channel indices
    ta_elAttrs,       \* the attributes of each associated element
    ta_loaded,        \* the load event was dispatched
    ta_deviceFile,    \* this._deviceFile is set
    ta_attributeName, \* this._attributeName
    ta_currentText,   \* this._currentText
    ta_notifs,        \* attribute changes the document model has yet to notify
    ta_writes,        \* every payload handed to prepareWrite, in order
    ta_sent,          \* the text whose payload was handed to prepareWrite last
    ta_changes,       \* number of attribute changes made by the application
    ta_last           \* the last call of elementAttributeModified

taVars == <<ta_attrs, ta_elements, ta_elAttrs, ta_loaded, ta_deviceFile,
            ta_attributeName, ta_currentText, ta_notifs, ta_writes, ta_sent,
            ta_changes, ta_last>>

VARIABLES
    \* ---- the document model ----
    nf_last       \* the last notification delivered to a callback that the
                  \* binding leaves empty

nfVars == <<nf_last>>

vars == <<ocVars, ibVars, lkVars, pcVars, tmVars, taVars, nfVars>>

\* What an operation of one binding leaves alone: the other bindings.
ocOthers == <<ibVars, lkVars, pcVars, tmVars, taVars, nfVars>>
ibOthers == <<ocVars, lkVars, pcVars, tmVars, taVars, nfVars>>
lkOthers == <<ocVars, ibVars, pcVars, tmVars, taVars, nfVars>>
pcOthers == <<ocVars, ibVars, lkVars, tmVars, taVars, nfVars>>
tmOthers == <<ocVars, ibVars, lkVars, pcVars, taVars, nfVars>>
taOthers == <<ocVars, ibVars, lkVars, pcVars, tmVars, nfVars>>

(***************************************************************************)
(* HTMLIoTOHubX24ColorBindingElement: the callback of this._mtx.lock().    *)
(***************************************************************************)
\* this._data.join('')
RECURSIVE Join(_)
Join(arr) == IF arr = <<>> THEN <<>> ELSE <<Head(arr)>> \o Join(Tail(arr))

\* this._data[pos]
DataGet(data, props, pos) ==
    IF ~IsNaN(pos) /\ pos[1] \in 0..(Len(data) - 1) THEN data[pos[1] + 1]
    ELSE IF pos \in DOMAIN props THEN props[pos]
    ELSE "undefined"

\* Variant: the vector is used as it is, without the zero fill.
FillData_None(data, channelsPerElement, index) == data

\* The zero fill that makes the element's last channel addressable.
FillData(data, channelsPerElement, index) ==
    LET elementLastChannelPos ==
            JsSub(JsMul(Num(index + 1), channelsPerElement), Num(1))
    IN  IF JsLe(Num(Len(data)), elementLastChannelPos)
        THEN data \o [i \in 1..(elementLastChannelPos[1] + 1 - Len(data)) |-> "0"]
        ELSE data

\* Variant: the property value is looked up as it was written.
ColorChannel_AsWritten(colorsChannel, propertyValue) ==
    IF propertyValue \in DOMAIN colorsChannel
    THEN <<colorsChannel[propertyValue]>> ELSE <<>>

\* The color channel of a property value: <<offset>>, or <<>> (undefined).
ColorChannel(colorsChannel, propertyValue) ==
    LET value == ToLowerCase(Trim(propertyValue))
    IN  IF value \in DOMAIN colorsChannel THEN <<colorsChannel[value]>> ELSE <<>>

\* Variant: the block is taken to start at the next element's position.
ElementFirstChannelPos_NextElement(index, channelsPerElement) ==
    JsMul(Num(index + 1), channelsPerElement)

\* elementFirstChannelPos
ElementFirstChannelPos(index, channelsPerElement) ==
    JsMul(Num(index), channelsPerElement)

\* Variant: the comparison never finds the block unchanged.
IsSame_Never(data, props, values) == FALSE

\* isSame: every candidate value equals the vector's current value.
IsSame(data, props, values) ==
    \A pos \in DOMAIN values : DataGet(data, props, pos) = values[pos]

\* Variant: no channel of the block is put to '0'.
ZeroKeys_None(first, channelsPerElement) == {}

\* The keys of values after the loop that sets all channels to '0': the
\* positions of the element's block (none when the loop bound is NaN).
ZeroKeys(first, channelsPerElement) ==
    IF IsNaN(channelsPerElement) THEN {}
    ELSE {JsAdd(first, Num(i)) : i \in 0..(channelsPerElement[1] - 1)}

\* Variant: the lock is released as soon as the write is issued.
HeldAfterCallback_Released(write) == FALSE

\* Variant: the early returns and the catch clause leave the lock held.
HeldAfterCallback_Kept(write) == TRUE

\* A property value that is not a string (null): propertyValue.trim() throws
\* a TypeError inside the try block.
NullValue == <<"null">>

\* After the callback returns the lock stays held exactly when a write was
\* issued: the early returns unlock, the write unlocks on finish or error.
HeldAfterCallback(write) == write # <<>>

\* The body of the lock callback up to the write: the vector it leaves and
\* the line it hands to prepareWrite (write is <<>> when it returns early).
LockedUpdate(data, props, channelsPerElement, colorsChannel, index, propertyValue) ==
    LET filled       == FillData(data, channelsPerElement, index)
        colorChannel == ColorChannel(colorsChannel, propertyValue)
        first        == ElementFirstChannelPos(index, channelsPerElement)
        zeroKeys     == ZeroKeys(first, channelsPerElement)
    IN  IF propertyValue = NullValue
        THEN \* the exception leaves the try block after the zero fill; the
             \* catch clause unlocks and logs
             [data |-> filled, props |-> props, write |-> <<>>]
        ELSE
        IF colorChannel = <<>> \/ JsGe(colorChannel, channelsPerElement)
        THEN [data |-> filled, props |-> props, write |-> <<>>]
        ELSE LET oneKey    == JsAdd(first, colorChannel)
                 keys      == zeroKeys \cup {oneKey}
                 values    == [pos \in keys |-> IF pos = oneKey THEN "1" ELSE "0"]
                 isSame    == IsSame(filled, props, values)
                 inArray(pos) == ~IsNaN(pos) /\ pos[1] \in 0..(Len(filled) - 1)
                 newData   == [i \in 1..Len(filled) |->
                                  IF Num(i - 1) \in keys THEN values[Num(i - 1)]
                                  ELSE filled[i]]
                 propKeys  == {pos \in keys : ~inArray(pos)}
                 newProps  == [pos \in (DOMAIN props) \cup propKeys |->
                                  IF pos \in propKeys THEN values[pos]
                                  ELSE props[pos]]
             IN  IF isSame
                 THEN [data |-> filled, props |-> props, write |-> <<>>]
                 ELSE [data |-> newData, props |-> newProps,
                       write |-> <<Join(newData)>>]


(***************************************************************************)
(* HTMLIoTOHubX24ColorBindingElement: operations.                          *)
(***************************************************************************)
\* The attribute sets a binding element is declared with.
ColorBindingAttrs ==
    { [id |-> "colorBinding", location |-> "/dev/ohubx24-sim0",
       channelsPerElement |-> <<"2">>, colorsChannel |-> CC_white0_blue1,
       colorPropertyNames |-> <<>>],
      [id |-> "colorBinding", location |-> "/dev/ohubx24-sim0",
       channelsPerElement |-> <<>>, colorsChannel |-> <<>>,
       colorPropertyNames |-> S_color \o <<" ">> \o S_background],
      [id |-> "colorBinding", location |-> "/dev/ohubx24-sim0",
       channelsPerElement |-> <<"2">>, colorsChannel |-> CC_white0_blue2,
       colorPropertyNames |-> <<>>],
      [id |-> "colorBinding", location |-> "/dev/ohubx24-sim0",
       channelsPerElement |-> <<"2">>, colorsChannel |-> CC_whiteNeg1_blue0,
       colorPropertyNames |-> <<>>],
      [id |-> "colorBinding", location |-> "/dev/ohubx24-sim0",
       channelsPerElement |-> <<"x">>, colorsChannel |-> CC_white0_blue1,
       colorPropertyNames |-> <<>>],
      [id |-> "colorBinding", location |-> "",
       channelsPerElement |-> <<"2">>, colorsChannel |-> CC_white0_blue1,
       colorPropertyNames |-> <<>>],
      [id |-> "", location |-> "/dev/ohubx24-sim0",
       channelsPerElement |-> <<"2">>, colorsChannel |-> CC_white0_blue1,
       colorPropertyNames |-> <<>>] }

\* The association maps the document model may have built.
ColorElementSets == {0..MaxIndex, {0, MaxIndex}}

PropertyNames == {S_color, S_background}
PropertyValues == {S_white, S_blue, S_red}

\* The fields after the constructor ran.
OcConstructed ==
    /\ oc_loaded = FALSE
    /\ oc_deviceFile = FALSE
    /\ oc_channelsPerElement = Num(1)
    /\ oc_colorsChannel = <<>>
    /\ oc_colorPropertyNames = <<S_color>>
    /\ oc_warned = FALSE
    /\ oc_data = <<>>
    /\ oc_dataProps = <<>>
    /\ oc_mtxLocked = FALSE
    /\ oc_mtxQueue = <<>>
    /\ oc_inCS = {}
    /\ oc_inflight = <<>>
    /\ oc_transmitted = <<>>
    /\ oc_device = <<>>
    /\ oc_count = 0
    /\ oc_last = <<>>
    /\ oc_failed = {}
    /\ oc_unlocks = [id \in 1..MaxNotifs |-> 0]
    /\ oc_seqData = <<>>
    /\ oc_seqProps = <<>>
    /\ oc_seqLines = <<>>

OcInit ==
    /\ oc_attrs \in ColorBindingAttrs
    /\ oc_elements \in ColorElementSets
    /\ OcConstructed

\* A binding of this kind that is not part of the document.
OcAbsent ==
    /\ oc_attrs = [id |-> "", location |-> "", channelsPerElement |-> <<>>,
                   colorsChannel |-> <<>>, colorPropertyNames |-> <<>>]
    /\ oc_elements = {}
    /\ OcConstructed

\* A color binding is part of the document.
OcPresent == ~(oc_attrs.id = "" /\ oc_attrs.location = "")

\* The load event: _init().
OcLoad ==
    /\ OcPresent
    /\ ~oc_loaded
    /\ oc_loaded' = TRUE
    /\ IF ~ValidateAttributes(oc_attrs)
       THEN UNCHANGED <<oc_deviceFile, oc_channelsPerElement, oc_colorsChannel,
                        oc_colorPropertyNames, oc_warned>>
       ELSE LET parsed == ParseColorsChannel(oc_colorsChannel,
                                             oc_attrs.colorsChannel)
            IN  /\ oc_channelsPerElement' =
                       ParseChannelsPerElement(oc_channelsPerElement,
                                               oc_attrs.channelsPerElement)
                /\ oc_colorsChannel' = parsed.map
                /\ oc_warned' = parsed.warned
                /\ oc_colorPropertyNames' =
                       ParseColorPropertyNames(oc_attrs.colorPropertyNames)
                /\ oc_deviceFile' = TRUE
    /\ UNCHANGED <<ocOthers, oc_attrs, oc_elements, oc_data, oc_dataProps, oc_mtxLocked,
                   oc_mtxQueue, oc_inCS, oc_inflight, oc_transmitted, oc_device,
                   oc_count, oc_last, oc_failed, oc_unlocks, oc_seqData,
                   oc_seqProps, oc_seqLines>>

\* this._mtx after a call of the unlock function its holder was given, when
\* that function was called `calls` times before.  The first call frees the
\* mutex.  What a further call does is decided by the Mutex class, which is
\* not part of this repository: it has no effect, or it frees the mutex
\* whoever holds it by then.
MutexAfterUnlock(locked, calls) ==
    IF calls = 0 THEN {FALSE} ELSE {locked, FALSE}

\* Variant: the newest request is served first.
LockRequest_NewestFirst(queue, request) == <<request>> \o queue

\* this._mtx.lock(): requests are served in the order they were made.
LockRequest(queue, request) == Append(queue, request)

\* Variant: only the property name is looked at.
StyleIgnored_NameOnly(colorPropertyNames, elements, deviceFile, index, propertyName) ==
    ~\E i \in 1..Len(colorPropertyNames) : colorPropertyNames[i] = propertyName

\* The early returns of elementStyleModified: the property is not monitored,
\* no element is associated with the index, or there is no device file.
\* (this._colorsChannel is an object from the constructor on, never falsy.)
StyleIgnored(colorPropertyNames, elements, deviceFile, index, propertyName) ==
    \/ ~\E i \in 1..Len(colorPropertyNames) :
            colorPropertyNames[i] = propertyName
    \/ index \notin elements
    \/ ~deviceFile

\* elementStyleModified past its early returns, up to the lock request.  The
\* one-at-a-time execution applies the notification at once.
OcElementStyleModified(index, propertyName, propertyValue) ==
    /\ OcPresent
    /\ ~StyleIgnored(oc_colorPropertyNames, oc_elements, oc_deviceFile, index,
                     propertyName)
    /\ oc_count < MaxNotifs
    /\ oc_count' = oc_count + 1
    /\ oc_mtxQueue' = LockRequest(oc_mtxQueue,
           [id |-> oc_count + 1, index |-> index, name |-> propertyName,
            value |-> propertyValue,
            waited |-> oc_mtxLocked \/ oc_mtxQueue # <<>>])
    /\ LET r == LockedUpdate(oc_seqData, oc_seqProps, oc_channelsPerElement,
                             oc_colorsChannel, index, propertyValue)
       IN  /\ oc_seqData' = r.data
           /\ oc_seqProps' = r.props
           /\ oc_seqLines' = oc_seqLines \o r.write
    /\ UNCHANGED <<ocOthers, oc_attrs, oc_elements, oc_loaded, oc_deviceFile,
                   oc_channelsPerElement, oc_colorsChannel,
                   oc_colorPropertyNames, oc_warned, oc_data, oc_dataProps,
                   oc_mtxLocked, oc_inCS, oc_inflight, oc_transmitted,
                   oc_device, oc_last, oc_failed, oc_unlocks>>

\* elementStyleModified taking one of its early returns; nf_last notes the
\* call.
OcStyleIgnored(index, propertyName) ==
    /\ OcPresent
    /\ StyleIgnored(oc_colorPropertyNames, oc_elements, oc_deviceFile, index,
                    propertyName)
    /\ nf_last' = [binding |-> "color", kind |-> "style", index |-> index,
                   name |-> propertyName]
    /\ UNCHANGED <<ocVars, ibVars, lkVars, pcVars, tmVars, taVars>>

\* The callback of lock(): runs when the mutex is free, for the oldest
\* request, from the zero fill to the write being issued.
OcLockCallback ==
    /\ ~oc_mtxLocked
    /\ oc_mtxQueue # <<>>
    /\ LET n == Head(oc_mtxQueue)
           r == LockedUpdate(oc_data, oc_dataProps, oc_channelsPerElement,
                             oc_colorsChannel, n.index, n.value)
       IN  /\ oc_mtxQueue' = Tail(oc_mtxQueue)
           /\ oc_data' = r.data
           /\ oc_dataProps' = r.props
           /\ oc_mtxLocked' = HeldAfterCallback(r.write)
           /\ oc_inCS' = IF r.write = <<>> THEN oc_inCS ELSE oc_inCS \cup {n.id}
           /\ oc_inflight' = oc_inflight \o
                  [i \in 1..Len(r.write) |-> [id |-> n.id, line |-> r.write[i]]]
           /\ oc_transmitted' = oc_transmitted \o r.write
           /\ oc_last' = (IF oc_last = <<>> THEN <<>>
                           ELSE <<oc_last[Len(oc_last)]>>) \o
                  <<[id |-> n.id, index |-> n.index, value |-> n.value,
                     waited |-> n.waited,
                     before |-> oc_data, beforeProps |-> oc_dataProps,
                     after |-> r.data, afterProps |-> r.props,
                     wrote |-> r.write # <<>>]>>
           /\ oc_unlocks' = IF r.write = <<>>
                            THEN [oc_unlocks EXCEPT ![n.id] = @ + 1]
                            ELSE oc_unlocks
    /\ UNCHANGED <<ocOthers, oc_attrs, oc_elements, oc_loaded, oc_deviceFile,
                   oc_channelsPerElement, oc_colorsChannel,
                   oc_colorPropertyNames, oc_warned, oc_device, oc_count,
                   oc_failed, oc_seqData, oc_seqProps, oc_seqLines>>

\* onFinish of a write: unlock().
OcWriteFinish ==
    /\ \E i \in 1..Len(oc_inflight) :
          /\ oc_inflight' = SubSeq(oc_inflight, 1, i - 1) \o
                            SubSeq(oc_inflight, i + 1, Len(oc_inflight))
          /\ oc_inCS' = oc_inCS \ {oc_inflight[i].id}
          /\ oc_device' = oc_inflight[i].line
          /\ oc_mtxLocked' \in
                 MutexAfterUnlock(oc_mtxLocked, oc_unlocks[oc_inflight[i].id])
          /\ oc_unlocks' = [oc_unlocks EXCEPT ![oc_inflight[i].id] = @ + 1]
    /\ UNCHANGED <<ocOthers, oc_attrs, oc_elements, oc_loaded, oc_deviceFile,
                   oc_channelsPerElement, oc_colorsChannel,
                   oc_colorPropertyNames, oc_warned, oc_data, oc_dataProps,
                   oc_mtxQueue, oc_transmitted, oc_count, oc_last, oc_failed,
                   oc_seqData, oc_seqProps, oc_seqLines>>

\* Variant: the error handler puts the vector back as the notification
\* found it.
DataAfterError_RolledBack(data, before) == before

\* this._data after the onError handler, which logs and unlocks only; before
\* is the vector the failed notification found.
DataAfterError(data, before) == data

\* onError of a write: the error is logged, unlock().
OcWriteError ==
    /\ \E i \in 1..Len(oc_inflight) :
          /\ oc_inflight' = SubSeq(oc_inflight, 1, i - 1) \o
                            SubSeq(oc_inflight, i + 1, Len(oc_inflight))
          /\ oc_inCS' = oc_inCS \ {oc_inflight[i].id}
          /\ oc_failed' = oc_failed \cup {oc_inflight[i].id}
          /\ oc_mtxLocked' \in
                 MutexAfterUnlock(oc_mtxLocked, oc_unlocks[oc_inflight[i].id])
          /\ oc_unlocks' = [oc_unlocks EXCEPT ![oc_inflight[i].id] = @ + 1]
    /\ oc_data' = DataAfterError(oc_data, oc_last[Len(oc_last)].before)
    /\ UNCHANGED <<ocOthers, oc_attrs, oc_elements, oc_loaded, oc_deviceFile,
                   oc_channelsPerElement, oc_colorsChannel,
                   oc_colorPropertyNames, oc_warned, oc_dataProps,
                   oc_mtxQueue, oc_transmitted, oc_device, oc_count, oc_last,
                   oc_seqData, oc_seqProps, oc_seqLines>>

\* The callback of lock() when .write() throws after it issued the write:
\* the catch clause calls unlock() and logs, and the handlers registered on
\* the write stay in place.
OcLockCallbackThrows ==
    /\ ~oc_mtxLocked
    /\ oc_mtxQueue # <<>>
    /\ LET n == Head(oc_mtxQueue)
           r == LockedUpdate(oc_data, oc_dataProps, oc_channelsPerElement,
                             oc_colorsChannel, n.index, n.value)
       IN  /\ r.write # <<>>
           /\ oc_mtxQueue' = Tail(oc_mtxQueue)
           /\ oc_data' = r.data
           /\ oc_dataProps' = r.props
           /\ oc_mtxLocked' = FALSE
           /\ oc_inflight' = oc_inflight \o
                  [i \in 1..Len(r.write) |-> [id |-> n.id, line |-> r.write[i]]]
           /\ oc_transmitted' = oc_transmitted \o r.write
           /\ oc_last' = (IF oc_last = <<>> THEN <<>>
                           ELSE <<oc_last[Len(oc_last)]>>) \o
                  <<[id |-> n.id, index |-> n.index, value |-> n.value,
                     waited |-> n.waited,
                     before |-> oc_data, beforeProps |-> oc_dataProps,
                     after |-> r.data, afterProps |-> r.props,
                     wrote |-> TRUE]>>
           /\ oc_unlocks' = [oc_unlocks EXCEPT ![n.id] = @ + 1]
    /\ UNCHANGED <<ocOthers, oc_attrs, oc_elements, oc_loaded, oc_deviceFile,
                   oc_channelsPerElement, oc_colorsChannel,
                   oc_colorPropertyNames, oc_warned, oc_inCS, oc_device,
                   oc_count, oc_failed, oc_seqData, oc_seqProps, oc_seqLines>>

\* onFinish of a write that signalled error before: unlock(), a second time
\* for the same notification.
OcFinishAfterError ==
    /\ \E id \in oc_failed :
          /\ oc_unlocks[id] = 1
          /\ oc_unlocks' = [oc_unlocks EXCEPT ![id] = @ + 1]
          /\ oc_mtxLocked' \in MutexAfterUnlock(oc_mtxLocked, oc_unlocks[id])
    /\ UNCHANGED <<ocOthers, oc_attrs, oc_elements, oc_loaded, oc_deviceFile,
                   oc_channelsPerElement, oc_colorsChannel,
                   oc_colorPropertyNames, oc_warned, oc_data, oc_dataProps,
                   oc_mtxQueue, oc_inCS, oc_inflight, oc_transmitted,
                   oc_device, oc_count, oc_last, oc_failed, oc_seqData,
                   oc_seqProps, oc_seqLines>>

OcNext ==
    \/ OcLoad
    \/ \E index \in 0..MaxIndex, propertyName \in PropertyNames,
          propertyValue \in PropertyValues :
           OcElementStyleModified(index, propertyName, propertyValue)
    \/ OcLockCallback
    \/ OcWriteFinish
    \/ OcWriteError

(***************************************************************************)
(* HTMLIoTIHubX24ButtonBindingElement.                                     *)
(***************************************************************************)
\* buffer.split(/\r\n|\r|\n/): the leftmost terminator ends a segment, and
\* "\r\n" is taken as one terminator when both characters are present.
RECURSIVE SplitLines(_)
SplitLines(s) ==
    IF \E i \in 1..Len(s) : s[i] \in {"\r", "\n"}
    THEN LET i == CHOOSE k \in 1..Len(s) :
                      /\ s[k] \in {"\r", "\n"}
                      /\ \A j \in 1..(k - 1) : s[j] \notin {"\r", "\n"}
             n == IF s[i] = "\r" /\ i < Len(s) /\ s[i + 1] = "\n" THEN 2 ELSE 1
         IN  <<SubSeq(s, 1, i - 1)>> \o SplitLines(SubSeq(s, i + n, Len(s)))
    ELSE <<s>>

\* lines.pop(): the last segment, and the segments before it.
LastSegment(lines) == lines[Len(lines)]
CompleteSegments(lines) == SubSeq(lines, 1, Len(lines) - 1)

\* previousVal = this._data[i]
PreviousVal(previous, i) ==
    IF i < Len(previous) THEN previous[i + 1] ELSE "undefined"

\* Variant: a missing previous value is taken to be '0'.
Unchanged_MissingIsZero(previousVal, val) ==
    (IF previousVal = "undefined" THEN "0" ELSE previousVal) = val

\* Variant: no state is ever found unchanged.
Unchanged_Never(previousVal, val) == FALSE

\* previousVal && previousVal == val
Unchanged(previousVal, val) == previousVal # "undefined" /\ previousVal = val

\* val == 1 chooses the event.
EventType(val) == IF val = "1" THEN "press" ELSE "release"

\* The loop of _onData from position i on: the events it dispatches for
\* line number lineNo, in order.
RECURSIVE OnDataEvents(_, _, _, _, _)
OnDataEvents(data, previous, elements, lineNo, i) ==
    IF i >= Len(data) THEN <<>>
    ELSE IF i \notin elements \/ Unchanged(PreviousVal(previous, i), data[i + 1])
    THEN OnDataEvents(data, previous, elements, lineNo, i + 1)
    ELSE <<[line |-> lineNo, channel |-> i, type |-> EventType(data[i + 1])]>>
             \o OnDataEvents(data, previous, elements, lineNo, i + 1)

\* lines.forEach(_onData): the previous line and the events after the lines
\* from number k on were handled.
RECURSIVE OnDataAll(_, _, _, _, _)
OnDataAll(lines, k, previous, elements, handled) ==
    IF k > Len(lines) THEN [data |-> previous, events |-> <<>>]
    ELSE LET rest == OnDataAll(lines, k + 1, lines[k], elements, handled)
         IN  [data |-> rest.data,
              events |-> OnDataEvents(lines[k], previous, elements,
                                      handled + k, 0) \o rest.events]

InputBindingAttrs ==
    { [id |-> "buttonBinding", location |-> "/dev/ihubx24-sim0"],
      [id |-> "buttonBinding", location |-> ""],
      [id |-> "", location |-> "/dev/ihubx24-sim0"] }

InputElementSets == {{0, 1}, {1}}

\* The characters the device delivers.
DeviceChars == {"0", "1", "\r", "\n"}

\* The chunks of one read callback: 1..MaxChunk characters.
RECURSIVE Chunks(_)
Chunks(n) ==
    IF n = 0 THEN {<<>>}
    ELSE {<<c>> \o t : c \in DeviceChars, t \in Chunks(n - 1)}

DeviceChunks == UNION {Chunks(n) : n \in 1..MaxChunk}

\* The fields after the constructor ran.
IbConstructed ==
    /\ ib_loaded = FALSE
    /\ ib_reading = FALSE
    /\ ib_buffer = <<>>
    /\ ib_data = <<>>
    /\ ib_stream = <<>>
    /\ ib_lines = <<>>
    /\ ib_events = <<>>
    /\ ib_writes = <<>>

IbInit ==
    /\ ib_attrs \in InputBindingAttrs
    /\ ib_elements \in InputElementSets
    /\ IbConstructed

\* A binding of this kind that is not part of the document.
IbAbsent ==
    /\ ib_attrs = [id |-> "", location |-> ""]
    /\ ib_elements = {}
    /\ IbConstructed

\* The load event: _init().
IbLoad ==
    /\ ib_attrs \in InputBindingAttrs
    /\ ~ib_loaded
    /\ ib_loaded' = TRUE
    /\ ib_reading' = ValidateAttributes(ib_attrs)
    /\ UNCHANGED <<ibOthers, ib_attrs, ib_elements, ib_buffer, ib_data, ib_stream,
                   ib_lines, ib_events, ib_writes>>

\* The onData callback of the read.
IbOnChunk(chunk) ==
    /\ ib_reading
    /\ Len(ib_stream) + Len(chunk) <= MaxStream
    /\ ib_stream' = ib_stream \o chunk
    /\ LET lines == SplitLines(ib_buffer \o chunk)
           done  == OnDataAll(CompleteSegments(lines), 1, ib_data, ib_elements,
                              Len(ib_lines))
       IN  /\ ib_buffer' = LastSegment(lines)
           /\ ib_lines' = ib_lines \o CompleteSegments(lines)
           /\ ib_data' = done.data
           /\ ib_events' = ib_events \o done.events
    /\ UNCHANGED <<ibOthers, ib_attrs, ib_elements, ib_loaded, ib_reading,
                   ib_writes>>

IbNext ==
    \/ IbLoad
    \/ \E chunk \in DeviceChunks : IbOnChunk(chunk)

(***************************************************************************)
(* HTMLIoTIOBitsLockBindingElement.                                        *)
(***************************************************************************)
LockBindingAttrs ==
    { [id |-> "lockBinding", location |-> "/dev/iohubx24-sim0"],
      [id |-> "", location |-> "/dev/iohubx24-sim0"],
      [id |-> "lockBinding", location |-> ""] }

LockElementSets == {{0}, {0, 1}, {}}

AttributeNames == {"locked", "message"}

\* el.setAttribute('locked', '') / el.removeAttribute('locked') on the
\* element of a channel: the elements that have the attribute afterwards.
SetLocked(locked, index) == locked \cup {index}
RemoveLocked(locked, index) == locked \ {index}

\* The notifications the document model owes for a change of the locked
\* attribute: setting always notifies, removing only a present attribute.
ChangeNotifs(locked, index, present) ==
    IF present \/ index \in locked
    THEN <<[index |-> index, name |-> "locked", line |-> <<>>,
            alone |-> FALSE]>>
    ELSE <<>>

\* _onData: the elements that have the locked attribute afterwards.
LkOnData(data, scalar, elements, locked) ==
    IF Len(data) = 0 \/ Len(scalar) = 0 THEN locked
    ELSE IF <<data[1]>> = scalar THEN locked
    ELSE IF 0 \notin elements THEN locked
    ELSE IF data[1] = "1" THEN SetLocked(locked, 0)
    ELSE RemoveLocked(locked, 0)

\* _onData: the attribute changes it makes, as owed notifications.
LkOnDataNotifs(data, scalar, elements, locked) ==
    IF Len(data) = 0 \/ Len(scalar) = 0 THEN <<>>
    ELSE IF <<data[1]>> = scalar THEN <<>>
    ELSE IF 0 \notin elements THEN <<>>
    ELSE LET notifs == ChangeNotifs(locked, 0, data[1] = "1")
         IN  [i \in 1..Len(notifs) |->
                  [notifs[i] EXCEPT !.line = <<data[1]>>]]

\* The notifications of one inbound call, which note whether the call made
\* the only attribute change that is yet to be notified.
FromInbound(notifs, owed) ==
    [i \in 1..Len(notifs) |->
         [notifs[i] EXCEPT !.alone = (owed = <<>> /\ Len(notifs) = 1)]]

\* Variant: the inbound path stores the symbol it processed.
ScalarAfterOnData_Stored(lines, scalar) ==
    IF lines = <<>> \/ lines[Len(lines)] = <<>> THEN scalar
    ELSE <<lines[Len(lines)][1]>>

\* this._data after _onData ran for the lines: _onData has no assignment to
\* it.
ScalarAfterOnData(lines, scalar) == scalar

\* lines.forEach(_onData) from line number k on.
RECURSIVE LkOnDataAll(_, _, _, _, _)
LkOnDataAll(lines, k, scalar, elements, locked) ==
    IF k > Len(lines) THEN [locked |-> locked, notifs |-> <<>>]
    ELSE LET rest == LkOnDataAll(lines, k + 1, scalar, elements,
                                 LkOnData(lines[k], scalar, elements, locked))
         IN  [locked |-> rest.locked,
              notifs |-> LkOnDataNotifs(lines[k], scalar, elements, locked)
                             \o rest.notifs]

\* The record of one call of _onData.
LkInRecord(src, data, scalar, before, after) ==
    [src |-> src, line |-> data, scalar |-> scalar,
     lockedBefore |-> before, lockedAfter |-> after]

\* Variant: the symbol is written on every notification.
NeedsWrite_Always(newLockState, data) == TRUE

\* _updateLockState: newLockState === this._data returns without a write.
NeedsWrite(newLockState, data) == newLockState # data

\* The fields after the constructor ran.
LkConstructed ==
    /\ lk_loaded = FALSE
    /\ lk_deviceFile = FALSE
    /\ lk_warned = FALSE
    /\ lk_data = <<>>
    /\ lk_buffer = <<>>
    /\ lk_notifs = <<>>
    /\ lk_writes = <<>>
    /\ lk_received = 0
    /\ lk_changes = 0
    /\ lk_lastIn = <<>>
    /\ lk_lastOut = <<>>

LkInit ==
    /\ lk_attrs \in LockBindingAttrs
    /\ lk_elements \in LockElementSets
    /\ lk_locked \in SUBSET lk_elements
    /\ LkConstructed

\* A binding of this kind that is not part of the document.
LkAbsent ==
    /\ lk_attrs = [id |-> "", location |-> ""]
    /\ lk_elements = {}
    /\ lk_locked = {}
    /\ LkConstructed

\* The load event: _init(), with _validateAttributes and _syncInitialState.
LkLoad ==
    /\ lk_attrs \in LockBindingAttrs
    /\ ~lk_loaded
    /\ lk_loaded' = TRUE
    /\ IF ~ValidateAttributes(lk_attrs)
       THEN UNCHANGED <<lk_deviceFile, lk_warned, lk_locked, lk_notifs,
                        lk_lastIn, lk_data>>
       ELSE LET data == IF 0 \in lk_elements /\ 0 \in lk_locked
                        THEN <<"1">> ELSE <<"0">>
                after == LkOnData(data, lk_data, lk_elements, lk_locked)
            IN  /\ lk_warned' = (Cardinality(lk_elements) > 1)
                /\ lk_deviceFile' = TRUE
                /\ lk_locked' = after
                /\ lk_notifs' = lk_notifs \o
                       FromInbound(LkOnDataNotifs(data, lk_data, lk_elements,
                                                  lk_locked), lk_notifs)
                /\ lk_data' = ScalarAfterOnData(<<data>>, lk_data)
                /\ lk_lastIn' = <<LkInRecord("sync", data, lk_data,
                                             lk_locked, after)>>
    /\ UNCHANGED <<lkOthers, lk_attrs, lk_elements, lk_buffer,
                   lk_writes, lk_received, lk_changes, lk_lastOut>>

\* The onData callback of the read.
LkOnChunk(chunk) ==
    /\ lk_deviceFile
    /\ lk_received + Len(chunk) <= MaxLockInput
    /\ lk_received' = lk_received + Len(chunk)
    /\ LET lines == SplitLines(lk_buffer \o chunk)
           done  == LkOnDataAll(CompleteSegments(lines), 1, lk_data,
                                lk_elements, lk_locked)
           n     == Len(lines) - 1
       IN  /\ lk_buffer' = LastSegment(lines)
           /\ lk_locked' = done.locked
           /\ lk_notifs' = lk_notifs \o FromInbound(done.notifs, lk_notifs)
           /\ lk_data' = ScalarAfterOnData(CompleteSegments(lines), lk_data)
           /\ lk_lastIn' =
                  IF n = 0 THEN lk_lastIn
                  ELSE LET before == LkOnDataAll(SubSeq(lines, 1, n - 1), 1,
                                        lk_data, lk_elements, lk_locked).locked
                       IN  <<LkInRecord("device", lines[n], lk_data, before,
                                        done.locked)>>
    /\ UNCHANGED <<lkOthers, lk_attrs, lk_elements, lk_loaded, lk_deviceFile,
                   lk_warned, lk_writes, lk_changes, lk_lastOut>>

\* The application sets or removes an attribute of an associated element;
\* the document model owes the binding the notification.
LkAppChange(index, name, present) ==
    /\ index \in lk_elements
    /\ lk_changes < MaxLockChanges
    /\ lk_changes' = lk_changes + 1
    /\ IF name = "locked"
       THEN /\ lk_locked' = IF present THEN SetLocked(lk_locked, index)
                            ELSE RemoveLocked(lk_locked, index)
            /\ lk_notifs' = lk_notifs \o ChangeNotifs(lk_locked, index, present)
       ELSE /\ lk_locked' = lk_locked
            /\ lk_notifs' = Append(lk_notifs,
                   [index |-> index, name |-> name, line |-> <<>>,
                    alone |-> FALSE])
    /\ UNCHANGED <<lkOthers, lk_attrs, lk_elements, lk_loaded, lk_deviceFile,
                   lk_warned, lk_data, lk_buffer, lk_writes, lk_received,
                   lk_lastIn, lk_lastOut>>

\* Variant: the callback of the lock binding waits for the mutex of the color
\* binding.
LkDeliverable_BehindColorMutex == lk_notifs # <<>> /\ ~oc_mtxLocked

\* A notification is owed and the callback can run: elementAttributeModified
\* and _updateLockState take no lock and use only this binding's fields and
\* device file.
LkDeliverable == lk_notifs # <<>>

\* elementAttributeModified, with _updateLockState: the document model
\* delivers the oldest owed notification.
LkElementAttributeModified ==
    /\ LkDeliverable
    /\ lk_notifs' = Tail(lk_notifs)
    /\ LET n == Head(lk_notifs)
           newLockState == IF n.index \in lk_locked THEN <<"1">> ELSE <<"0">>
       IN  IF n.name # "locked" \/ ~lk_deviceFile
           THEN UNCHANGED <<lk_data, lk_writes, lk_lastOut>>
           ELSE /\ lk_lastOut' = <<[symbol |-> newLockState,
                                    scalarBefore |-> lk_data,
                                    writesBefore |-> lk_writes,
                                    line |-> n.line,
                                    alone |-> n.alone /\ Len(lk_notifs) = 1]>>
                /\ IF NeedsWrite(newLockState, lk_data)
                   THEN /\ lk_data' = newLockState
                        /\ lk_writes' = Append(lk_writes, newLockState)
                   ELSE UNCHANGED <<lk_data, lk_writes>>
    /\ UNCHANGED <<lkOthers, lk_attrs, lk_elements, lk_locked, lk_loaded,
                   lk_deviceFile, lk_warned, lk_buffer, lk_received,
                   lk_changes, lk_lastIn>>

LkNext ==
    \/ LkLoad
    \/ \E chunk \in DeviceChunks : LkOnChunk(chunk)
    \/ \E index \in {0, 1}, name \in AttributeNames, present \in BOOLEAN :
           LkAppChange(index, name, present)
    \/ LkElementAttributeModified

(***************************************************************************)
(* _parseColorsChannel of HTMLIoTOHubX24ColorBindingElement, taken alone:  *)
(* a color binding whose colors-channel attribute ranges over the texts an *)
(* author can write with up to MaxEntries entries.                         *)
(***************************************************************************)
\* The entries an author writes.  text is what stands between the ";";
\* key and index are what the author declares by it: the color name in lower
\* case, and <<n>> for the index n or <<>> for none.  The empty entry (two
\* ";" in a row, or a trailing ";") declares nothing.
EntryForms ==
    { [text |-> S_white, key |-> S_white, index |-> <<>>],
      [text |-> S_blue, key |-> S_blue, index |-> <<>>],
      [text |-> S_Blue_padded, key |-> S_blue, index |-> <<>>],
      [text |-> S_white \o <<":","0">>, key |-> S_white, index |-> <<0>>],
      [text |-> S_white \o <<":","1">>, key |-> S_white, index |-> <<1>>],
      [text |-> S_blue \o <<":","1">>, key |-> S_blue, index |-> <<1>>],
      [text |-> S_blue \o <<":","0">>, key |-> S_blue, index |-> <<0>>],
      [text |-> <<" ","R","e","d"," ",":"," ","2"," ">>, key |-> S_red,
       index |-> <<2>>],
      [text |-> S_red \o <<":","x">>, key |-> S_red, index |-> <<>>],
      [text |-> <<>>, key |-> <<>>, index |-> <<>>] }

EntrySeqs == UNION { [1..n -> EntryForms] : n \in 0..MaxEntries }

\* The attribute text of a sequence of entries: their texts joined by ";".
RECURSIVE JoinEntries(_)
JoinEntries(entries) ==
    IF entries = <<>> THEN <<>>
    ELSE IF Len(entries) = 1 THEN entries[1].text
    ELSE entries[1].text \o <<";">> \o JoinEntries(Tail(entries))

\* this.getAttribute('colors-channel'): null when the attribute is absent.
\* null and the empty text take the same branch of !colorsChannel, so null is
\* given as the empty text.
PcGetAttribute == IF pc_present THEN pc_attr ELSE <<>>

\* The fields after the constructor ran.
PcConstructed ==
    /\ pc_colorsChannel = <<>>
    /\ pc_warned = FALSE
    /\ pc_parsed = FALSE

PcInit ==
    /\ pc_present \in BOOLEAN
    /\ pc_entries \in EntrySeqs
    /\ (~pc_present => pc_entries = <<>>)
    /\ pc_attr = JoinEntries(pc_entries)
    /\ PcConstructed

\* No color binding whose parser is taken alone.
PcAbsent ==
    /\ pc_present = FALSE
    /\ pc_entries = <<>>
    /\ pc_attr = <<>>
    /\ PcConstructed

\* this._parseColorsChannel(), called once by _init().
PcParseColorsChannel ==
    /\ ~pc_parsed
    /\ pc_parsed' = TRUE
    /\ LET parsed == ParseColorsChannel(pc_colorsChannel, PcGetAttribute)
       IN  /\ pc_colorsChannel' = parsed.map
           /\ pc_warned' = parsed.warned
    /\ UNCHANGED <<pcOthers, pc_present, pc_entries, pc_attr>>

PcNext == PcParseColorsChannel

(***************************************************************************)
(* HTMLIoTOTextMessageBindingElement.  HTMLIoTLCDMessageBindingElement has *)
(* the same code under another class name.                                 *)
(***************************************************************************)
\* The longest payload the device driver accepts.
MessageLimit == 120

S_hi == <<"h","i">>
\* Texts of MessageLimit and of MessageLimit + 1 characters.
LongMessage == [i \in 1..MessageLimit |-> "a"]
LongMessageX == LongMessage \o <<"x">>
LongMessageY == LongMessage \o <<"y">>

\* Values of an element's message attribute; the empty text also stands for
\* the absent attribute, which getAttribute('message') || '' turns into ''.
MessageTexts == {<<>>, S_hi, LongMessage, LongMessageX, LongMessageY}

MessageBindingAttrs ==
    { [id |-> "lcdBinding", location |-> "/dev/lcd-sim0"],
      [id |-> "", location |-> "/dev/lcd-sim0"],
      [id |-> "lcdBinding", location |-> ""] }

MessageElementSets == {{0}, {0, 1}}

\* Names of the attributes the application changes on an element.
MessageAttributeNames == {"message", "title"}

\* s.substring(0, n)
Substring(s, n) == SubSeq(s, 1, IF Len(s) < n THEN Len(s) ELSE n)

\* Variant: the message is handed to the device file as it is.
DisplayMessage_Whole(message) == message

\* displayMessage
DisplayMessage(message) == Substring(message, MessageLimit)

\* Variant: the first write carries the first element's message.
InitialMessage_FirstElement(elements, message) ==
    IF 0 \in elements THEN message[0] ELSE <<>>

\* The message _init() writes.
InitialMessage(elements, message) == <<>>

\* The fields after the constructor ran.
TmConstructed ==
    /\ tm_loaded = FALSE
    /\ tm_deviceFile = FALSE
    /\ tm_currentMessage = <<>>
    /\ tm_notifs = <<>>
    /\ tm_writes = <<>>
    /\ tm_sent = <<>>
    /\ tm_changes = 0
    /\ tm_last = <<>>

TmInit ==
    /\ tm_attrs \in MessageBindingAttrs
    /\ tm_elements \in MessageElementSets
    /\ tm_message \in [tm_elements -> MessageTexts]
    /\ TmConstructed

\* A binding of this kind that is not part of the document.
TmAbsent ==
    /\ tm_attrs = [id |-> "", location |-> ""]
    /\ tm_elements = {}
    /\ tm_message = <<>>
    /\ TmConstructed

\* _writeMessage: the payloads handed to prepareWrite and the text sent last.
WriteMessage(deviceFile, writes, sent, message) ==
    IF ~deviceFile THEN [writes |-> writes, sent |-> sent]
    ELSE [writes |-> Append(writes, DisplayMessage(message)),
          sent |-> <<message>>]

\* The load event: _init().
TmLoad ==
    /\ tm_attrs \in MessageBindingAttrs
    /\ ~tm_loaded
    /\ tm_loaded' = TRUE
    /\ IF ~ValidateAttributes(tm_attrs)
       THEN UNCHANGED <<tm_deviceFile, tm_writes, tm_sent>>
       ELSE LET w == WriteMessage(TRUE, tm_writes, tm_sent,
                                  InitialMessage(tm_elements, tm_message))
            IN  /\ tm_deviceFile' = TRUE
                /\ tm_writes' = w.writes
                /\ tm_sent' = w.sent
    /\ UNCHANGED <<tmOthers, tm_attrs, tm_elements, tm_message,
                   tm_currentMessage, tm_notifs, tm_changes, tm_last>>

\* The application sets an attribute of an associated element.  The document
\* model monitors the elements once the binding is loaded and then owes the
\* binding a notification for the change.
TmAppChange(index, name, text) ==
    /\ tm_loaded
    /\ index \in tm_elements
    /\ tm_changes < MaxTextChanges
    /\ tm_changes' = tm_changes + 1
    /\ tm_message' = IF name = "message"
                     THEN [tm_message EXCEPT ![index] = text]
                     ELSE tm_message
    /\ tm_notifs' = Append(tm_notifs, [index |-> index, name |-> name])
    /\ UNCHANGED <<tmOthers, tm_attrs, tm_elements, tm_loaded, tm_deviceFile,
                   tm_currentMessage, tm_writes, tm_sent, tm_last>>

\* The application sets the message attribute of an associated element
\* before the load event was dispatched, and the document model owes the
\* binding the notification all the same: elementAttributeModified is a
\* callback that does not look at the state of the binding.
TmEarlyChange(index, text) ==
    /\ ~tm_loaded
    /\ index \in tm_elements
    /\ tm_changes < MaxTextChanges
    /\ tm_changes' = tm_changes + 1
    /\ tm_message' = [tm_message EXCEPT ![index] = text]
    /\ tm_notifs' = Append(tm_notifs, [index |-> index, name |-> "message"])
    /\ UNCHANGED <<tmOthers, tm_attrs, tm_elements, tm_loaded, tm_deviceFile,
                   tm_currentMessage, tm_writes, tm_sent, tm_last>>

\* elementAttributeModified, with _updateMessage: the document model
\* delivers the oldest owed notification.
TmElementAttributeModified ==
    /\ tm_notifs # <<>>
    /\ tm_notifs' = Tail(tm_notifs)
    /\ LET n          == Head(tm_notifs)
           newMessage == tm_message[n.index]
       IN  /\ tm_last' = <<[index |-> n.index, name |-> n.name,
                            newMessage |-> newMessage,
                            currentBefore |-> tm_currentMessage,
                            sentBefore |-> tm_sent,
                            writesBefore |-> tm_writes]>>
           /\ IF n.name = "message" /\ tm_currentMessage # newMessage
              THEN LET w == WriteMessage(tm_deviceFile, tm_writes, tm_sent,
                                         newMessage)
                   IN  /\ tm_currentMessage' = newMessage
                       /\ tm_writes' = w.writes
                       /\ tm_sent' = w.sent
              ELSE UNCHANGED <<tm_currentMessage, tm_writes, tm_sent>>
    /\ UNCHANGED <<tmOthers, tm_attrs, tm_elements, tm_message, tm_loaded,
                   tm_deviceFile, tm_changes>>

TmNext ==
    \/ TmLoad
    \/ \E index \in {0, 1}, text \in MessageTexts : TmAppChange(index, "message", text)
    \/ \E index \in {0, 1} : TmAppChange(index, "title", <<>>)
    \/ TmElementAttributeModified

(***************************************************************************)
(* HTMLIoTOTextAttributeBindingElement.                                    *)
(***************************************************************************)
\* The number of characters of the text that are written.
TextLimit == 1024

S_text == <<"t","e","x","t">>
S_message == <<"m","e","s","s","a","g","e">>
\* A text of TextLimit + 1 characters.
LongTextX == [i \in 1..TextLimit |-> "a"] \o <<"x">>

\* Values of an element's attribute; the empty text also stands for the
\* absent attribute: !text holds of null as of ''.
TextValues == {<<>>, S_hi, LongTextX}

\* Names of the attributes the application changes on an element.
TextAttributeNames == {S_text, S_message}

TextBindingAttrs ==
    { [id |-> "lcdBinding", location |-> "/dev/lcd-sim0", attributeName |-> <<>>],
      [id |-> "lcdBinding", location |-> "/dev/lcd-sim0",
       attributeName |-> S_message],
      [id |-> "", location |-> "/dev/lcd-sim0", attributeName |-> S_message],
      [id |-> "lcdBinding", location |-> "", attributeName |-> <<>>] }

TextElementSets == {{0}, {0, 1}, {1}}

\* The attributes an element has when the document is built.
InitialElementAttrs ==
    { [name \in TextAttributeNames |-> <<>>],
      [name \in TextAttributeNames |-> IF name = S_text THEN S_hi ELSE <<>>],
      [name \in TextAttributeNames |-> IF name = S_message THEN LongTextX ELSE <<>>] }

\* message
TextMessage(attributeName, text) ==
    attributeName \o <<"=">> \o Substring(text, TextLimit)

\* Variant: the empty text is written like any other.
SkipsText_EqualOnly(text, currentText) == currentText = text

\* The first early return of _writeText.
SkipsText(text, currentText) == text = <<>> \/ currentText = text

\* _writeText: this._currentText, the payloads handed to prepareWrite and the
\* text sent last.
WriteText(text, currentText, deviceFile, attributeName, writes, sent) ==
    IF SkipsText(text, currentText) \/ ~deviceFile
    THEN [currentText |-> currentText, writes |-> writes, sent |-> sent]
    ELSE [currentText |-> text,
          writes |-> Append(writes, TextMessage(attributeName, text)),
          sent |-> <<text>>]

\* The fields after the constructor ran.
TaConstructed ==
    /\ ta_loaded = FALSE
    /\ ta_deviceFile = FALSE
    /\ ta_attributeName = S_text
    /\ ta_currentText = <<>>
    /\ ta_notifs = <<>>
    /\ ta_writes = <<>>
    /\ ta_sent = <<>>
    /\ ta_changes = 0
    /\ ta_last = <<>>

TaInit ==
    /\ ta_attrs \in TextBindingAttrs
    /\ ta_elements \in TextElementSets
    /\ ta_elAttrs \in [ta_elements -> InitialElementAttrs]
    /\ TaConstructed

\* A binding of this kind that is not part of the document.
TaAbsent ==
    /\ ta_attrs = [id |-> "", location |-> "", attributeName |-> <<>>]
    /\ ta_elements = {}
    /\ ta_elAttrs = <<>>
    /\ TaConstructed

\* The load event: _init().
TaLoad ==
    /\ ta_attrs \in TextBindingAttrs
    /\ ~ta_loaded
    /\ ta_loaded' = TRUE
    /\ IF ~ValidateAttributes(ta_attrs)
       THEN UNCHANGED <<ta_deviceFile, ta_attributeName, ta_currentText,
                        ta_writes, ta_sent>>
       ELSE LET attributeName == IF ta_attrs.attributeName = <<>> THEN S_text
                                 ELSE ta_attrs.attributeName
            IN  /\ ta_attributeName' = attributeName
                /\ ta_deviceFile' = TRUE
                /\ IF 0 \notin ta_elements
                   THEN UNCHANGED <<ta_currentText, ta_writes, ta_sent>>
                   ELSE LET w == WriteText(ta_elAttrs[0][attributeName],
                                           ta_currentText, TRUE, attributeName,
                                           ta_writes, ta_sent)
                        IN  /\ ta_currentText' = w.currentText
                            /\ ta_writes' = w.writes
                            /\ ta_sent' = w.sent
    /\ UNCHANGED <<taOthers, ta_attrs, ta_elements, ta_elAttrs, ta_notifs,
                   ta_changes, ta_last>>

\* The application sets an attribute of an associated element.  The document
\* model monitors the elements once the binding is loaded and then owes the
\* binding a notification for the change.
TaAppChange(index, name, text) ==
    /\ ta_loaded
    /\ index \in ta_elements
    /\ ta_changes < MaxTextChanges
    /\ ta_changes' = ta_changes + 1
    /\ ta_elAttrs' = [ta_elAttrs EXCEPT ![index][name] = text]
    /\ ta_notifs' = Append(ta_notifs, [index |-> index, name |-> name])
    /\ UNCHANGED <<taOthers, ta_attrs, ta_elements, ta_loaded, ta_deviceFile,
                   ta_attributeName, ta_currentText, ta_writes, ta_sent,
                   ta_last>>

\* elementAttributeModified, with _writeText: the document model delivers
\* the oldest owed notification.
TaElementAttributeModified ==
    /\ ta_notifs # <<>>
    /\ ta_notifs' = Tail(ta_notifs)
    /\ LET n    == Head(ta_notifs)
           text == ta_elAttrs[n.index][ta_attributeName]
       IN  /\ ta_last' = <<[index |-> n.index, name |-> n.name, text |-> text,
                            currentBefore |-> ta_currentText,
                            sentBefore |-> ta_sent,
                            writesBefore |-> ta_writes]>>
           /\ IF n.name = ta_attributeName
              THEN LET w == WriteText(text, ta_currentText, ta_deviceFile,
                                      ta_attributeName, ta_writes, ta_sent)
                   IN  /\ ta_currentText' = w.currentText
                       /\ ta_writes' = w.writes
                       /\ ta_sent' = w.sent
              ELSE UNCHANGED <<ta_currentText, ta_writes, ta_sent>>
    /\ UNCHANGED <<taOthers, ta_attrs, ta_elements, ta_elAttrs, ta_loaded,
                   ta_deviceFile, ta_attributeName, ta_changes>>

TaNext ==
    \/ TaLoad
    \/ \E index \in {0, 1}, name \in TextAttributeNames, text \in TextValues :
           TaAppChange(index, name, text)
    \/ TaElementAttributeModified

(***************************************************************************)
(* The callbacks a binding leaves empty.  The document model calls all     *)
(* three callbacks of every binding; nf_last notes the last call of an     *)
(* empty one.                                                              *)
(***************************************************************************)
NotificationKinds == {"attribute", "attributeNS", "style"}

\* Variant: an empty callback of the text message binding writes the message
\* all the same.
EmptyCallback_WritesMessage ==
    /\ tm_writes' = Append(tm_writes, tm_currentMessage)
    /\ UNCHANGED <<ocVars, ibVars, lkVars, pcVars, taVars, tm_attrs,
                   tm_elements, tm_message, tm_loaded, tm_deviceFile,
                   tm_currentMessage, tm_notifs, tm_sent, tm_changes, tm_last>>

\* The body "// do nothing".
EmptyCallback == UNCHANGED <<ocVars, ibVars, lkVars, pcVars, tmVars, taVars>>

\* The button binding: elementAttributeModified, elementAttributeNSModified
\* and elementStyleModified are empty.
IbElementAttributeModified ==
    /\ ib_attrs \in InputBindingAttrs
    /\ nf_last' = [binding |-> "button", kind |-> "attribute"]
    /\ EmptyCallback
IbElementAttributeNSModified ==
    /\ ib_attrs \in InputBindingAttrs
    /\ nf_last' = [binding |-> "button", kind |-> "attributeNS"]
    /\ EmptyCallback
IbElementStyleModified ==
    /\ ib_attrs \in InputBindingAttrs
    /\ nf_last' = [binding |-> "button", kind |-> "style"]
    /\ EmptyCallback

\* The color binding: elementAttributeModified and
\* elementAttributeNSModified are empty.
OcElementAttributeModified ==
    /\ OcPresent
    /\ nf_last' = [binding |-> "color", kind |-> "attribute"]
    /\ EmptyCallback
OcElementAttributeNSModified ==
    /\ OcPresent
    /\ nf_last' = [binding |-> "color", kind |-> "attributeNS"]
    /\ EmptyCallback

\* The lock binding: elementAttributeNSModified and elementStyleModified are
\* empty.
LkElementAttributeNSModified ==
    /\ lk_attrs \in LockBindingAttrs
    /\ nf_last' = [binding |-> "lock", kind |-> "attributeNS"]
    /\ EmptyCallback
LkElementStyleModified ==
    /\ lk_attrs \in LockBindingAttrs
    /\ nf_last' = [binding |-> "lock", kind |-> "style"]
    /\ EmptyCallback

\* The text message binding: elementAttributeNSModified and
\* elementStyleModified are empty.
TmElementAttributeNSModified ==
    /\ tm_attrs \in MessageBindingAttrs
    /\ nf_last' = [binding |-> "message", kind |-> "attributeNS"]
    /\ EmptyCallback
TmElementStyleModified ==
    /\ tm_attrs \in MessageBindingAttrs
    /\ nf_last' = [binding |-> "message", kind |-> "style"]
    /\ EmptyCallback

\* The text attribute binding: elementAttributeNSModified and
\* elementStyleModified are empty.
TaElementAttributeNSModified ==
    /\ ta_attrs \in TextBindingAttrs
    /\ nf_last' = [binding |-> "text", kind |-> "attributeNS"]
    /\ EmptyCallback
TaElementStyleModified ==
    /\ ta_attrs \in TextBindingAttrs
    /\ nf_last' = [binding |-> "text", kind |-> "style"]
    /\ EmptyCallback

NfNext ==
    \/ IbElementAttributeModified
    \/ IbElementAttributeNSModified
    \/ IbElementStyleModified
    \/ OcElementAttributeModified
    \/ OcElementAttributeNSModified
    \/ LkElementAttributeNSModified
    \/ LkElementStyleModified
    \/ TmElementAttributeNSModified
    \/ TmElementStyleModified
    \/ TaElementAttributeNSModified
    \/ TaElementStyleModified

(***************************************************************************)
(* Specifications.                                                         *)
(***************************************************************************)
\* No notification was delivered to an empty callback yet.
NfInit == nf_last = <<>>

\* A document with one color binding.
InitColor == OcInit /\ IbAbsent /\ LkAbsent /\ PcAbsent /\ TmAbsent
             /\ TaAbsent /\ NfInit
SpecColor == InitColor /\ [][OcNext]_vars

\* A document with one button binding.
InitInput == IbInit /\ OcAbsent /\ LkAbsent /\ PcAbsent /\ TmAbsent
             /\ TaAbsent /\ NfInit
SpecInput == InitInput /\ [][IbNext]_vars

\* A document with one lock binding.
InitLock == LkInit /\ OcAbsent /\ IbAbsent /\ PcAbsent /\ TmAbsent
            /\ TaAbsent /\ NfInit
SpecLock == InitLock /\ [][LkNext]_vars

\* The colors-channel parser of a color binding, over every attribute text.
InitParser == PcInit /\ OcAbsent /\ IbAbsent /\ LkAbsent /\ TmAbsent
              /\ TaAbsent /\ NfInit
SpecParser == InitParser /\ [][PcNext]_vars

\* A document with one text message binding.
InitMessage == TmInit /\ OcAbsent /\ IbAbsent /\ LkAbsent /\ PcAbsent
               /\ TaAbsent /\ NfInit
SpecMessage == InitMessage /\ [][TmNext]_vars

\* A document with one text attribute binding.
InitTextAttr == TaInit /\ OcAbsent /\ IbAbsent /\ LkAbsent /\ PcAbsent
                /\ TmAbsent /\ NfInit
SpecTextAttr == InitTextAttr /\ [][TaNext]_vars

\* A document with one binding, of any of the five kinds: with an attribute
\* missing, in every way, or with id and location, in one configuration.
InitDocument ==
    /\ InitColor \/ InitInput \/ InitLock \/ InitMessage \/ InitTextAttr
    /\ (oc_attrs.id # "" /\ oc_attrs.location # "") =>
           /\ oc_attrs.channelsPerElement = <<"2">>
           /\ oc_attrs.colorsChannel = CC_white0_blue1
           /\ oc_elements = 0..MaxIndex
    /\ (ib_attrs.id # "" /\ ib_attrs.location # "") => ib_elements = {0, 1}
    /\ (lk_attrs.id # "" /\ lk_attrs.location # "") => lk_elements = {0}
    /\ (tm_attrs.id # "" /\ tm_attrs.location # "") => tm_elements = {0}
    /\ (ta_attrs.id # "" /\ ta_attrs.location # "") => ta_elements = {0}
NextDocument == OcNext \/ IbNext \/ LkNext \/ TmNext \/ TaNext
SpecDocument == InitDocument /\ [][NextDocument]_vars

\* Chunks that hold one complete line.
LineChunks == {<<"1", "\n">>, <<"0", "\n">>}

\* A document with a color binding and a lock binding, each constructed with
\* its own mutex, vector and device file.  The document model keeps
\* delivering the notifications it owes the lock binding; nothing obliges
\* the device of the color binding to ever signal the end of a write, nor
\* the device of the lock binding to ever send data.
InitPair ==
    /\ OcInit
    /\ oc_attrs = [id |-> "colorBinding", location |-> "/dev/ohubx24-sim0",
                   channelsPerElement |-> <<"2">>,
                   colorsChannel |-> CC_white0_blue1,
                   colorPropertyNames |-> <<>>]
    /\ oc_elements = 0..MaxIndex
    /\ LkInit
    /\ ValidateAttributes(lk_attrs)
    /\ lk_elements = {0}
    /\ IbAbsent /\ PcAbsent /\ TmAbsent /\ TaAbsent /\ NfInit
NextPair ==
    \/ OcLoad
    \/ OcElementStyleModified(0, S_color, S_blue)
    \/ OcLockCallback
    \/ OcWriteFinish
    \/ OcWriteError
    \/ LkLoad
    \/ \E chunk \in LineChunks : LkOnChunk(chunk)
    \/ \E present \in BOOLEAN : LkAppChange(0, "locked", present)
    \/ LkElementAttributeModified
SpecPair ==
    InitPair /\ [][NextPair]_vars /\ WF_vars(LkElementAttributeModified)

\* Property values by the color name they spell: the name, the name in other
\* letter case, the name with whitespace around it.
LookupForms ==
    { [text |-> S_blue, name |-> "blue"],
      [text |-> S_Blue_padded, name |-> "blue"],
      [text |-> <<"B","L","U","E"," ">>, name |-> "blue"],
      [text |-> S_white, name |-> "white"],
      [text |-> <<"\t","W","h","i","t","e","\n">>, name |-> "white"],
      [text |-> S_red, name |-> "red"] }

\* A document with one color binding whose colors-channel attribute spells
\* the names with upper-case letters; the property values come in every
\* form.
InitLookup ==
    /\ oc_attrs = [id |-> "colorBinding", location |-> "/dev/ohubx24-sim0",
                   channelsPerElement |-> <<"2">>,
                   colorsChannel |-> CC_White0_BLUE1,
                   colorPropertyNames |-> <<>>]
    /\ oc_elements = {0, 1}
    /\ OcConstructed
    /\ IbAbsent /\ LkAbsent /\ PcAbsent /\ TmAbsent /\ TaAbsent /\ NfInit
NextLookup ==
    \/ OcLoad
    \/ \E form \in LookupForms :
           OcElementStyleModified(1, S_color, form.text)
    \/ OcLockCallback
    \/ OcWriteFinish
    \/ OcWriteError
SpecLookup == InitLookup /\ [][NextLookup]_vars

\* A document with one color binding (channels-per-element="2",
\* colors-channel="white:0;blue:2") on a device that signals finish or error
\* for every write; the promise of lock() is resolved once the mutex is
\* free.  The property values take every path of the callback: white is
\* written or found unchanged, blue is out of range, red is unknown, null
\* throws.
InitRelease ==
    /\ oc_attrs = [id |-> "colorBinding", location |-> "/dev/ohubx24-sim0",
                   channelsPerElement |-> <<"2">>,
                   colorsChannel |-> CC_white0_blue2,
                   colorPropertyNames |-> <<>>]
    /\ oc_elements = 0..MaxIndex
    /\ OcConstructed
    /\ IbAbsent /\ LkAbsent /\ PcAbsent /\ TmAbsent /\ TaAbsent /\ NfInit
NextRelease ==
    \/ OcLoad
    \/ \E index \in {0, 1},
          propertyValue \in {S_white, S_blue, S_red, NullValue} :
           OcElementStyleModified(index, S_color, propertyValue)
    \/ OcLockCallback
    \/ OcWriteFinish
    \/ OcWriteError
\* The promise of lock() is resolved for the oldest request: the step of
\* OcLockCallback, seen on the queue of the mutex.
OcGranted ==
    /\ ~oc_mtxLocked
    /\ oc_mtxQueue # <<>>
    /\ oc_mtxQueue' = Tail(oc_mtxQueue)
SpecRelease ==
    /\ InitRelease
    /\ [][NextRelease]_vars
    /\ WF_oc_mtxQueue(OcGranted)
    /\ WF_vars(OcWriteFinish \/ OcWriteError)

\* A document with one color binding that monitors the property color and
\* has elements at the indices 0 and MaxIndex only; the document model
\* delivers style changes of monitored and other properties, for indices
\* with and without an element.
InitFilter ==
    /\ oc_attrs = [id |-> "colorBinding", location |-> "/dev/ohubx24-sim0",
                   channelsPerElement |-> <<"2">>,
                   colorsChannel |-> CC_white0_blue1,
                   colorPropertyNames |-> <<>>]
    /\ oc_elements = {0, MaxIndex}
    /\ OcConstructed
    /\ IbAbsent /\ LkAbsent /\ PcAbsent /\ TmAbsent /\ TaAbsent /\ NfInit
NextFilter ==
    \/ OcLoad
    \/ \E index \in 0..MaxIndex, propertyName \in PropertyNames :
           OcElementStyleModified(index, propertyName, S_blue)
    \/ \E index \in 0..MaxIndex, propertyName \in PropertyNames :
           OcStyleIgnored(index, propertyName)
    \/ OcLockCallback
    \/ OcWriteFinish
    \/ OcWriteError
SpecFilter == InitFilter /\ [][NextFilter]_vars

\* A document with one color binding on a device channel that gives no
\* guarantee about its signals: a write that signalled error may signal
\* finish afterwards, and .write() may throw after it issued the write.
InitUnlock ==
    /\ oc_attrs = [id |-> "colorBinding", location |-> "/dev/ohubx24-sim0",
                   channelsPerElement |-> <<"2">>,
                   colorsChannel |-> CC_white0_blue1,
                   colorPropertyNames |-> <<>>]
    /\ oc_elements = 0..MaxIndex
    /\ OcConstructed
    /\ IbAbsent /\ LkAbsent /\ PcAbsent /\ TmAbsent /\ TaAbsent /\ NfInit
NextUnlock ==
    \/ OcLoad
    \/ \E index \in {0, 1}, propertyValue \in {S_white, S_blue, S_red} :
           OcElementStyleModified(index, S_color, propertyValue)
    \/ OcLockCallback
    \/ OcLockCallbackThrows
    \/ OcWriteFinish
    \/ OcWriteError
    \/ OcFinishAfterError
SpecUnlock == InitUnlock /\ [][NextUnlock]_vars

\* A document with one text message binding with valid attributes, in which
\* the message attribute of the element changes before and after the load
\* event.
InitEarly ==
    /\ TmInit
    /\ ValidateAttributes(tm_attrs)
    /\ tm_elements = {0}
    /\ OcAbsent /\ IbAbsent /\ LkAbsent /\ PcAbsent /\ TaAbsent /\ NfInit
NextEarly ==
    \/ TmLoad
    \/ \E text \in MessageTexts : TmEarlyChange(0, text)
    \/ \E text \in MessageTexts : TmAppChange(0, "message", text)
    \/ TmElementAttributeModified
SpecEarly == InitEarly /\ [][NextEarly]_vars

\* A document with one binding of any kind, with valid attributes, to which
\* the document model delivers every kind of notification, the ones the
\* binding uses and the ones it leaves empty.
InitNotify ==
    /\ InitDocument
    /\ oc_attrs \in ColorBindingAttrs => ValidateAttributes(oc_attrs)
    /\ ib_attrs \in InputBindingAttrs => ValidateAttributes(ib_attrs)
    /\ lk_attrs \in LockBindingAttrs => ValidateAttributes(lk_attrs)
    /\ tm_attrs \in MessageBindingAttrs => ValidateAttributes(tm_attrs)
    /\ ta_attrs \in TextBindingAttrs => ValidateAttributes(ta_attrs)
NextNotify ==
    \/ OcLoad
    \/ OcElementStyleModified(0, S_color, S_blue)
    \/ OcLockCallback
    \/ OcWriteFinish
    \/ OcWriteError
    \/ IbLoad
    \/ \E chunk \in LineChunks : IbOnChunk(chunk)
    \/ LkLoad
    \/ \E chunk \in LineChunks : LkOnChunk(chunk)
    \/ \E present \in BOOLEAN : LkAppChange(0, "locked", present)
    \/ LkElementAttributeModified
    \/ TmLoad
    \/ TmAppChange(0, "message", S_hi)
    \/ TmElementAttributeModified
    \/ TaLoad
    \/ TaAppChange(0, S_text, S_hi)
    \/ TaElementAttributeModified
    \/ NfNext
SpecNotify == InitNotify /\ [][NextNotify]_vars


(***************************************************************************)
(* Properties of HTMLIoTOHubX24ColorBindingElement.                        *)
(***************************************************************************)
\* The notification whose lock callback ran last.
OcLast == oc_last[Len(oc_last)]

\* The positions of an element's block, for a positive channelsPerElement.
OcBlock(index) ==
    IF IsNaN(oc_channelsPerElement) THEN {}
    ELSE {index * oc_channelsPerElement[1] + i :
              i \in 0..(oc_channelsPerElement[1] - 1)}

\* C1: the read-modify-write-then-transmit sequences never interleave: at
\* most one notification is between its lock grant and its unlock, and at
\* most one device write is in flight.
C1_NoInterleaving ==
    /\ Cardinality(oc_inCS) <= 1
    /\ Len(oc_inflight) <= 1
    /\ (oc_inCS # {} => oc_mtxLocked)

\* C1 witness: a write is in flight while a later notification waits.
C1_Witness ==
    /\ Len(oc_inflight) = 1
    /\ oc_mtxLocked
    /\ oc_mtxQueue # <<>>

\* The notifications of a queue applied one after the other to a vector.
RECURSIVE ApplyQueue(_, _)
ApplyQueue(st, queue) ==
    IF queue = <<>> THEN st
    ELSE LET n == Head(queue)
             r == LockedUpdate(st.data, st.props, oc_channelsPerElement,
                               oc_colorsChannel, n.index, n.value)
         IN  ApplyQueue([data |-> r.data, props |-> r.props,
                         lines |-> st.lines \o r.write], Tail(queue))

\* C2: the notifications are applied in delivery order, each against the
\* vector its predecessor left: the lines transmitted so far, continued by
\* the waiting notifications in order, are the lines of the one-at-a-time
\* execution; and a transmitted line is the entire vector after the update.
C2_DeliveryOrder ==
    /\ LET r == ApplyQueue([data |-> oc_data, props |-> oc_dataProps,
                            lines |-> oc_transmitted], oc_mtxQueue)
       IN  /\ r.data = oc_seqData
           /\ r.props = oc_seqProps
           /\ r.lines = oc_seqLines
    /\ (oc_last # <<>> /\ OcLast.wrote) =>
           oc_transmitted[Len(oc_transmitted)] = oc_data

\* C2 witness: a notification that waited behind the lock ran and
\* transmitted a second, different line.
C2_Witness ==
    /\ oc_last # <<>>
    /\ OcLast.waited
    /\ OcLast.wrote
    /\ Len(oc_transmitted) = 2
    /\ oc_transmitted[1] # oc_transmitted[2]

\* C3: after a notification whose value is absent from the color map, or
\* mapped to an offset not below channelsPerElement, every position of the
\* element's block is '0', and the full vector was transmitted if the block
\* held a '1' before.
C3_UnknownColorTurnsOff ==
    (oc_last # <<>> /\
     LET c == ColorChannel(oc_colorsChannel, OcLast.value)
     IN  c = <<>> \/ JsGe(c, oc_channelsPerElement)) =>
        /\ \A pos \in OcBlock(OcLast.index) :
               pos \in 0..(Len(oc_data) - 1) => oc_data[pos + 1] = "0"
        /\ (\E pos \in OcBlock(OcLast.index) :
                pos \in 0..(Len(OcLast.before) - 1) /\ OcLast.before[pos + 1] = "1")
             => (OcLast.wrote /\ oc_transmitted[Len(oc_transmitted)] = oc_data)

\* The last two lock callbacks ran for the same element and value.
OcRedelivered ==
    /\ Len(oc_last) = 2
    /\ oc_last[1].index = oc_last[2].index
    /\ oc_last[1].value = oc_last[2].value

\* C4: a notification re-delivered with the same value for the same element
\* right after it was applied issues no write and leaves the vector
\* unchanged.
C4_Idempotent ==
    OcRedelivered =>
        /\ ~oc_last[2].wrote
        /\ oc_data = oc_last[2].before
        /\ oc_dataProps = oc_last[2].beforeProps

\* C4 witness: the first delivery changed the vector and was transmitted,
\* the second one followed.
C4_Witness == OcRedelivered /\ oc_last[1].wrote

\* The case of C5: channels-per-element=2, colors-channel="white:0;blue:1",
\* vector "000000", element 1 set to blue.
C5_Case ==
    /\ oc_attrs.channelsPerElement = <<"2">>
    /\ oc_attrs.colorsChannel = CC_white0_blue1
    /\ oc_last # <<>>
    /\ OcLast.index = 1
    /\ OcLast.value = S_blue
    /\ OcLast.before = <<"0","0","0","0","0","0">>

\* C5 as stated: the transmitted line is "000001".
C5_Line000001 ==
    C5_Case => (OcLast.wrote /\ oc_transmitted[Len(oc_transmitted)]
                                   = <<"0","0","0","0","0","1">>)

\* C5 amended: element 1's block is positions 2-3 and blue is offset 1, so
\* the transmitted line is "000100".
C5_Line000100 ==
    C5_Case => (OcLast.wrote /\ oc_transmitted[Len(oc_transmitted)]
                                   = <<"0","0","0","1","0","0">>)

\* C5 witness: the case of C5 happened and the line was transmitted.
C5_Witness == C5_Case /\ OcLast.wrote


(***************************************************************************)
(* Properties of HTMLIoTIHubX24ButtonBindingElement.                       *)
(***************************************************************************)
\* C6: however the stream is divided into chunks, the lines handed to the
\* data handler are those of the stream arriving as a single chunk.
C6_ChunkingInvariant ==
    ib_lines = CompleteSegments(SplitLines(ib_stream))

\* The events dispatched for channel i by line number k.
IbEventsOf(k, i) ==
    SelectSeq(ib_events, LAMBDA e : e.line = k /\ e.channel = i)

\* Channel i is covered by line number k.
IbCovers(k, i) == i < Len(ib_lines[k])

\* C7: for a line after the first and an associated channel covered by the
\* line and by the line before it, nothing is dispatched when the symbol is
\* unchanged, and exactly one event otherwise: press for '1', else release.
C7_DiffDispatch ==
    \A k \in 2..Len(ib_lines) : \A i \in ib_elements :
        (IbCovers(k, i) /\ IbCovers(k - 1, i)) =>
            IF ib_lines[k][i + 1] = ib_lines[k - 1][i + 1]
            THEN IbEventsOf(k, i) = <<>>
            ELSE IbEventsOf(k, i) =
                     <<[line |-> k, channel |-> i,
                        type |-> IF ib_lines[k][i + 1] = "1" THEN "press"
                                 ELSE "release"]>>

\* C7 witness: lines "01" then "00" with both channels associated: channel
\* 0 is unchanged, channel 1 changed to '0'.
C7_Witness ==
    /\ ib_elements = {0, 1}
    /\ Len(ib_lines) = 2
    /\ ib_lines[1] = <<"0", "1">>
    /\ ib_lines[2] = <<"0", "0">>

\* C8: the first line dispatches exactly one event for every associated
\* channel it covers, release for the symbol '0' included, and nothing for
\* a position without an element.
C8_FirstLine ==
    Len(ib_lines) >= 1 =>
        /\ \A i \in ib_elements :
               IbCovers(1, i) =>
                   IbEventsOf(1, i) =
                       <<[line |-> 1, channel |-> i,
                          type |-> IF ib_lines[1][i + 1] = "1" THEN "press"
                                   ELSE "release"]>>
        /\ \A j \in 1..Len(ib_events) :
               ib_events[j].line = 1 =>
                   (ib_events[j].channel \in ib_elements
                    /\ IbCovers(1, ib_events[j].channel))

\* C8 witness: the first line is "00", channel 1 has an element and channel
\* 0 has none.
C8_Witness ==
    /\ ib_elements = {1}
    /\ Len(ib_lines) >= 1
    /\ ib_lines[1] = <<"0", "0">>
    /\ ib_events # <<>>


(***************************************************************************)
(* Properties of HTMLIoTIOBitsLockBindingElement.                          *)
(***************************************************************************)
\* C9: for a non-empty line received from the device after ready, nothing
\* happens when its first character equals the stored scalar; otherwise the
\* element of channel 0 has the locked attribute afterwards exactly when
\* the character is '1'.
C9_InboundUpdatesElement ==
    (lk_lastIn # <<>> /\ lk_lastIn[1].src = "device"
                      /\ lk_lastIn[1].line # <<>>) =>
        LET in == lk_lastIn[1]
        IN  IF <<in.line[1]>> = in.scalar
            THEN in.lockedAfter = in.lockedBefore
            ELSE 0 \in lk_elements =>
                     (0 \in in.lockedAfter <=> in.line[1] = "1")

\* C10: a notification for the locked attribute whose symbol differs from
\* the stored scalar stores the symbol and issues exactly one write of it;
\* one whose symbol equals the scalar issues no write.
C10_OutboundWrite ==
    lk_lastOut # <<>> =>
        LET out == lk_lastOut[1]
        IN  IF out.symbol # out.scalarBefore
            THEN /\ lk_data = out.symbol
                 /\ lk_writes = Append(out.writesBefore, out.symbol)
            ELSE /\ lk_data = out.scalarBefore
                 /\ lk_writes = out.writesBefore

\* C10 witness: the attribute went from absent (the scalar is '0') to
\* present, and "1" was written.
C10_Witness ==
    /\ lk_lastOut # <<>>
    /\ lk_lastOut[1].symbol = <<"1">>
    /\ lk_lastOut[1].scalarBefore = <<"0">>
    /\ lk_writes = <<<<"0">>, <<"1">>>>

(***************************************************************************)
(* Properties of _parseColorsChannel.                                      *)
(***************************************************************************)
\* The entries that declare a color, in declaration order.
PcDeclared == SelectSeq(pc_entries, LAMBDA e : e.text # <<>>)

PcKeys == { PcDeclared[i].key : i \in DOMAIN PcDeclared }

\* Entry i is the last one that declares its color name.
PcLastOfKey(i) ==
    \A j \in DOMAIN PcDeclared : PcDeclared[j].key = PcDeclared[i].key => j <= i

PcAllIndexed ==
    PcDeclared # <<>> /\ \A i \in DOMAIN PcDeclared : PcDeclared[i].index # <<>>
PcNoneIndexed ==
    PcDeclared # <<>> /\ \A i \in DOMAIN PcDeclared : PcDeclared[i].index = <<>>
PcMixed ==
    /\ \E i \in DOMAIN PcDeclared : PcDeclared[i].index # <<>>
    /\ \E i \in DOMAIN PcDeclared : PcDeclared[i].index = <<>>

\* The map of the same names with the indices removed: each name at the
\* position of its last declaration, counted from 0.
PcSequentialMap ==
    [ k \in PcKeys |->
        (CHOOSE i \in DOMAIN PcDeclared : PcDeclared[i].key = k /\ PcLastOfKey(i)) - 1 ]

\* C11: when some but not all entries carry a valid index, the map is the one
\* of the same names without indices (sequential from 0 in declaration order)
\* and the warning is emitted; the warning is emitted in no other case.
C11_MixedMode ==
    pc_parsed =>
        /\ (PcMixed => pc_colorsChannel = PcSequentialMap)
        /\ (pc_warned <=> PcMixed)

\* C11 witness: a mixed attribute of three entries was parsed, one of whose
\* declared indices differs from the entry's position.
C11_Witness ==
    /\ pc_parsed /\ PcMixed /\ pc_warned
    /\ Len(PcDeclared) = 3
    /\ \E i \in DOMAIN PcDeclared :
           PcDeclared[i].index # <<>> /\ PcDeclared[i].index[1] # i - 1

\* C12: when every entry carries a valid index, each name is mapped to the
\* index of its last declaration, wherever the entry stands, and no other
\* name is mapped.
C12_AllIndexedMode ==
    (pc_parsed /\ PcAllIndexed) =>
        /\ DOMAIN pc_colorsChannel = PcKeys
        /\ \A i \in DOMAIN PcDeclared :
               PcLastOfKey(i) =>
                   pc_colorsChannel[PcDeclared[i].key] = PcDeclared[i].index[1]

\* C12 witness: an all-indexed attribute was parsed in which a name is
\* declared twice with different indices and an entry's index differs from
\* its position.
C12_Witness ==
    /\ pc_parsed /\ PcAllIndexed
    /\ \E i, j \in DOMAIN PcDeclared :
           /\ i < j
           /\ PcDeclared[i].key = PcDeclared[j].key
           /\ PcDeclared[i].index # PcDeclared[j].index
    /\ \E i \in DOMAIN PcDeclared :
           PcLastOfKey(i) /\ PcDeclared[i].index[1] # i - 1

C16_InitialEmptyWrite ==
    [][ /\ ~tm_loaded => tm_writes = <<>>
        /\ (~tm_loaded /\ tm_loaded' /\ ValidateAttributes(tm_attrs)) =>
               tm_writes' = << <<>> >> ]_vars

\* C16 witness: a validly configured binding whose first element has a
\* non-empty message was loaded and has issued the one empty write.
C16_Witness ==
    /\ tm_loaded /\ tm_deviceFile
    /\ 0 \in tm_elements /\ tm_message[0] # <<>>
    /\ tm_writes = << <<>> >>

(***************************************************************************)
(* Properties of HTMLIoTOTextAttributeBindingElement.                      *)
(***************************************************************************)
\* The configured attribute-name, "text" by default.
TaConfiguredName ==
    IF ta_attrs.attributeName = <<>> THEN <<"t","e","x","t">>
    ELSE ta_attrs.attributeName

C18_OnlyFirstElement ==
    (ta_last # <<>> /\ ta_last[1].index # 0) =>
        /\ ta_writes = ta_last[1].writesBefore
        /\ ta_sent = ta_last[1].sentBefore
        /\ ta_currentText = ta_last[1].currentBefore

(***************************************************************************)
(* Properties of _parseChannelsPerElement.                                 *)
(***************************************************************************)
\* C20: after the load event of a validly configured color binding whose
\* channels-per-element attribute is present and holds no digit,
\* channelsPerElement still is the default 1.
C20_NonNumericKeepsDefault ==
    ( /\ oc_loaded /\ oc_deviceFile
      /\ oc_attrs.channelsPerElement # <<>>
      /\ \A i \in DOMAIN oc_attrs.channelsPerElement :
             ~IsDigit(oc_attrs.channelsPerElement[i]) )
    => oc_channelsPerElement = Num(1)

(***************************************************************************)
(* Properties of _validateAttributes and _init, for every binding.         *)
(***************************************************************************)
\* The binding is part of the document and lacks its id or its location.
OcInvalid ==
    oc_attrs \in ColorBindingAttrs /\ (oc_attrs.id = "" \/ oc_attrs.location = "")
IbInvalid ==
    ib_attrs \in InputBindingAttrs /\ (ib_attrs.id = "" \/ ib_attrs.location = "")
LkInvalid ==
    lk_attrs \in LockBindingAttrs /\ (lk_attrs.id = "" \/ lk_attrs.location = "")
TmInvalid ==
    tm_attrs \in MessageBindingAttrs /\ (tm_attrs.id = "" \/ tm_attrs.location = "")
TaInvalid ==
    ta_attrs \in TextBindingAttrs /\ (ta_attrs.id = "" \/ ta_attrs.location = "")

\* C19: a binding that lacks its id or its location never has a device file:
\* the color binding requests no lock and hands no line to it, the button
\* binding starts no read, receives no line and dispatches no event, the lock
\* binding receives nothing, never runs its inbound path (so it changes no
\* attribute) and writes nothing, and the text bindings write nothing.
C19_ConfigErrorInert ==
    /\ OcInvalid => /\ ~oc_deviceFile
                    /\ ~oc_mtxLocked /\ oc_mtxQueue = <<>>
                    /\ oc_inflight = <<>> /\ oc_transmitted = <<>>
    /\ IbInvalid => /\ ~ib_reading
                    /\ ib_lines = <<>> /\ ib_events = <<>>
    /\ LkInvalid => /\ ~lk_deviceFile
                    /\ lk_received = 0 /\ lk_lastIn = <<>>
                    /\ lk_writes = <<>>
    /\ TmInvalid => ~tm_deviceFile /\ tm_writes = <<>>
    /\ TaInvalid => ~ta_deviceFile /\ ta_writes = <<>>

\* C19 witness: a text message binding without location was loaded and was
\* then notified of a message that differs from the one it remembered.
C19_Witness ==
    /\ TmInvalid /\ tm_attrs.location = "" /\ tm_loaded
    /\ tm_last # <<>> /\ tm_last[1].name = "message"
    /\ tm_last[1].newMessage # tm_last[1].currentBefore

\* The first of the last two notifications wrote and its write ended in
\* error.
OcFailedThenNext ==
    /\ Len(oc_last) = 2
    /\ oc_last[1].wrote
    /\ oc_last[1].id \in oc_failed

\* C21: a write that ends in error leaves the vector as the notification
\* wrote it and is not retried (no write is in flight after it and the lines
\* handed to the device are at most one per notification served); the next
\* notification is applied against the kept vector, so the same value for the
\* same element issues no write, and a write is issued only when the
\* candidate block differs from the vector.
C21_WriteFailureKept ==
    /\ (oc_last # <<>> /\ OcLast.id \in oc_failed) =>
           /\ oc_data = OcLast.after
           /\ oc_dataProps = OcLast.afterProps
           /\ oc_inflight = <<>>
           /\ Len(oc_transmitted) <= oc_count - Len(oc_mtxQueue)
    /\ OcFailedThenNext =>
           /\ oc_last[2].before = oc_last[1].after
           /\ oc_last[2].beforeProps = oc_last[1].afterProps
           /\ (OcRedelivered => ~oc_last[2].wrote)
           /\ (oc_last[2].wrote =>
                   \/ oc_last[2].after # oc_last[2].before
                   \/ oc_last[2].afterProps # oc_last[2].beforeProps)

\* C21 witness: a write failed and the same value was delivered again for the
\* same element, without a write.
C21_Witness ==
    /\ OcFailedThenNext
    /\ OcRedelivered
    /\ ~oc_last[2].wrote
    /\ oc_device = <<>>

\* C22: with a color binding and a lock binding in one document, the lock
\* binding does not wait for the color binding: whenever a notification is
\* owed to it the callback can run, whenever its device sends a line the line
\* can be taken, also while the color binding holds its mutex for a write
\* that is still in flight; and every notification owed to the lock binding
\* is eventually delivered, in the behaviours where the write of the color
\* binding never completes as in all others.
C22_OtherBindingProgresses ==
    /\ [](lk_notifs # <<>> => ENABLED LkElementAttributeModified)
    /\ []((lk_deviceFile /\ lk_received = 0) =>
              ENABLED LkOnChunk(<<"1", "\n">>))
    /\ (lk_notifs # <<>>) ~> (lk_notifs = <<>>)

\* C22 witness: the color binding is stalled, its write in flight and a later
\* notification waiting for the mutex, while the lock binding has taken
\* device data, written to its device and has no notification left.
C22_Witness ==
    /\ oc_inflight # <<>>
    /\ oc_mtxQueue # <<>>
    /\ oc_device = <<>>
    /\ lk_received > 0
    /\ lk_writes # <<>>
    /\ lk_changes > 0
    /\ lk_notifs = <<>>

\* C23: a notification of a kind the binding does not use changes nothing,
\* in no binding and on no device: the step that delivers it leaves every
\* field, every queue and every list of payloads written as it was; and the
\* button binding never hands a payload to its device.
C23_UnusedNotificationNoOp ==
    /\ [][nf_last' # nf_last =>
              UNCHANGED <<ocVars, ibVars, lkVars, pcVars, tmVars, taVars>>]_vars
    /\ [](ib_writes = <<>>)
    /\ [](nf_last # <<>> =>
              /\ nf_last.kind \in NotificationKinds
              /\ nf_last.binding = "button" => ib_attrs \in InputBindingAttrs
              /\ nf_last.binding = "color" =>
                     nf_last.kind \in {"attribute", "attributeNS"}
              /\ nf_last.binding \in {"lock", "message", "text"} =>
                     nf_last.kind \in {"style", "attributeNS"})

\* C23 witness: the button binding has dispatched events and then got a style
\* notification.
C23_Witness ==
    /\ nf_last # <<>>
    /\ nf_last.binding = "button"
    /\ nf_last.kind = "style"
    /\ ib_events # <<>>

\* The color name a property value spells.
NameOf(text) == (CHOOSE form \in LookupForms : form.text = text).name

\* C24: the names of the color map are stored lower-cased, and the lookup
\* does not depend on letter case or surrounding whitespace: what a callback
\* did with its property value (the vector it left and whether it wrote) is
\* what it would have done with any other spelling of the same name.
C24_LookupInsensitive ==
    /\ \A key \in DOMAIN oc_colorsChannel : ToLowerCase(key) = key
    /\ \A i \in 1..Len(oc_last) :
           LET r == oc_last[i]
           IN  \A form \in LookupForms :
                   form.name = NameOf(r.value) =>
                       LET u == LockedUpdate(r.before, r.beforeProps,
                                             oc_channelsPerElement,
                                             oc_colorsChannel, r.index,
                                             form.text)
                       IN  /\ u.data = r.after
                           /\ u.props = r.afterProps
                           /\ (u.write # <<>>) = r.wrote

\* C24 witness: an element was set to "blue" with a write, then to " Blue",
\* which found the block unchanged; the map was declared as "White:0;BLUE:1".
C24_Witness ==
    /\ Len(oc_last) = 2
    /\ oc_last[1].index = oc_last[2].index
    /\ oc_last[1].value = S_blue
    /\ oc_last[1].wrote
    /\ oc_last[2].value = S_Blue_padded
    /\ ~oc_last[2].wrote
    /\ DOMAIN oc_colorsChannel = {S_white, S_blue}

\* C25: when the device signals finish or error for every write, the
\* binding always comes to rest: from any state in which the mutex is held
\* or a notification waits for it, a state is reached in which the mutex is
\* free, no notification is inside its critical section and none waits, so
\* every notification that acquired the mutex has released it and every
\* queued notification was served; and the mutex is held only over a write
\* in flight, never after an early return or an exception.
C25_LockReleased ==
    /\ (oc_mtxLocked \/ oc_mtxQueue # <<>>) ~>
           (~oc_mtxLocked /\ oc_mtxQueue = <<>> /\ oc_inCS = {})
    /\ [](oc_mtxLocked => oc_inflight # <<>>)

\* C25 witness: a notification whose value threw was followed by one that
\* had waited for the mutex, wrote and got an error; the mutex is free and
\* nobody waits.
C25_Witness ==
    /\ Len(oc_last) = 2
    /\ oc_last[1].value = NullValue
    /\ oc_last[2].waited
    /\ oc_last[2].wrote
    /\ oc_last[2].id \in oc_failed
    /\ ~oc_mtxLocked
    /\ oc_mtxQueue = <<>>

\* C26: after initialization every offset stored in the color map is a
\* non-negative integer.
C26_OffsetsNonNegative ==
    oc_loaded => \A key \in DOMAIN oc_colorsChannel : oc_colorsChannel[key] >= 0

\* C27: the vector changes only in the callbacks, each of which leaves it at
\* least as long as it found it, so it never gets shorter; each of its
\* elements is "0" or "1"; and a callback, whether it writes or returns
\* early, has the vector cover the last position of its element's block (for
\* a numeric channels-per-element); the positions added hold "0", but for
\* the one position that a callback that writes sets to "1".
C27_VectorInvariant ==
    /\ oc_last = <<>> => oc_data = <<>>
    /\ oc_last # <<>> => oc_data = OcLast.after
    /\ Len(oc_last) = 2 => oc_last[2].before = oc_last[1].after
    /\ \A i \in 1..Len(oc_data) : oc_data[i] \in {"0", "1"}
    /\ \A k \in 1..Len(oc_last) :
           LET r == oc_last[k]
           IN  /\ Len(r.after) >= Len(r.before)
               /\ SubSeq(r.after, 1, Len(r.before)) \in
                      Seq({"0", "1"})
               /\ ~IsNaN(oc_channelsPerElement) =>
                      /\ Len(r.after) >=
                             (r.index + 1) * oc_channelsPerElement[1]
                      /\ LET added == (Len(r.before) + 1)..Len(r.after)
                             ones  == {i \in added : r.after[i] = "1"}
                         IN  /\ Cardinality(ones) <= 1
                             /\ ~r.wrote => ones = {}

\* C27 witness: a notification with an unknown color for the element at
\* index 2 returned early and still zero-filled the vector up to that block;
\* the next notification wrote within the vector as it was.
C27_Witness ==
    /\ Len(oc_last) = 2
    /\ oc_last[1].index = 2
    /\ oc_last[1].value = S_red
    /\ ~oc_last[1].wrote
    /\ oc_last[1].before = <<>>
    /\ Len(oc_last[1].after) = 6
    /\ oc_last[2].index = 0
    /\ oc_last[2].wrote
    /\ Len(oc_data) = 6

\* C28: a style change of a property that is not monitored, or for an index
\* without an element, takes an early return: the step changes no field of
\* the binding (the vector, the mutex and its queue, the writes issued), and
\* no such notification is ever among the requests for the mutex.
C28_IgnoredStyleChange ==
    /\ [][nf_last' # nf_last =>
              /\ UNCHANGED ocVars
              /\ \/ nf_last'.index \notin oc_elements
                 \/ ~\E i \in 1..Len(oc_colorPropertyNames) :
                        oc_colorPropertyNames[i] = nf_last'.name
                 \/ ~oc_deviceFile]_vars
    /\ [](\A i \in 1..Len(oc_mtxQueue) :
              /\ oc_mtxQueue[i].index \in oc_elements
              /\ \E k \in 1..Len(oc_colorPropertyNames) :
                     oc_colorPropertyNames[k] = oc_mtxQueue[i].name)
    /\ [](\A k \in 1..Len(oc_last) : oc_last[k].index \in oc_elements)

\* C28 witness: while a write is in flight, a style change of the monitored
\* property arrived for the index 1, which has no element; nothing waits for
\* the mutex.
C28_Witness ==
    /\ nf_last # <<>>
    /\ nf_last.index = 1
    /\ nf_last.name = S_color
    /\ 1 \notin oc_elements
    /\ oc_inflight # <<>>
    /\ oc_mtxQueue = <<>>
    /\ Len(oc_transmitted) = 1

\* _onData gets as far as setAttribute or removeAttribute on the element of
\* channel 0.
LkOnDataUpdates(data, scalar, elements) ==
    /\ Len(data) # 0
    /\ Len(scalar) # 0
    /\ <<data[1]>> # scalar
    /\ 0 \in elements

\* C29: at ready the inbound path is fed "1" when the element of channel 0
\* has the locked attribute and "0" when it has not or when there is no such
\* element; the call updates the element, and until a notification of the
\* locked attribute is handled nothing is written to the device and the
\* stored scalar is as the constructor left it.
C29_InitialReconciliation ==
    (lk_lastIn # <<>> /\ lk_lastIn[1].src = "sync") =>
        LET in == lk_lastIn[1]
        IN  /\ in.line = IF 0 \in lk_elements /\ 0 \in in.lockedBefore
                         THEN <<"1">> ELSE <<"0">>
            /\ 0 \in lk_elements =>
                   LkOnDataUpdates(in.line, in.scalar, lk_elements)
            /\ lk_lastOut = <<>> => (lk_writes = <<>> /\ lk_data = <<>>)

\* C30: a callback for the element at index i leaves every position of the
\* vector outside the block of i as it found it, and the positions it adds
\* outside that block hold "0" (for a numeric channels-per-element).
C30_BlockFrame ==
    \A k \in 1..Len(oc_last) :
        LET r == oc_last[k]
        IN  ~IsNaN(oc_channelsPerElement) =>
                \A i \in 1..Len(r.after) :
                    (i - 1) \notin OcBlock(r.index) =>
                        r.after[i] = IF i <= Len(r.before) THEN r.before[i]
                                     ELSE "0"

\* The number of positions of the element's block that hold "1".
OcOnesInBlock(index) ==
    Cardinality({pos \in OcBlock(index) :
                     pos + 1 \in 1..Len(oc_data) /\ oc_data[pos + 1] = "1"})

\* C31: when every offset of the color map is non-negative and
\* channels-per-element is a positive integer, each element's block of the
\* vector holds at most one "1" in every reachable state.
C31_AtMostOneOn ==
    (/\ oc_loaded
     /\ \A key \in DOMAIN oc_colorsChannel : oc_colorsChannel[key] >= 0
     /\ ~IsNaN(oc_channelsPerElement)
     /\ oc_channelsPerElement[1] > 0) =>
        \A index \in 0..MaxIndex : OcOnesInBlock(index) <= 1

\* C31 witness: the block of the element at index 1 held "1" at the channel
\* of white; a notification of blue for the same element wrote, and the block
\* now holds its only "1" at the channel of blue.
C31_Witness ==
    /\ oc_channelsPerElement = Num(2)
    /\ oc_colorsChannel = [x \in {S_white, S_blue} |->
                               IF x = S_white THEN 0 ELSE 1]
    /\ Len(oc_last) = 2
    /\ oc_last[2].index = 1
    /\ oc_last[2].value = S_blue
    /\ oc_last[2].wrote
    /\ Len(oc_last[2].before) >= 4
    /\ oc_last[2].before[3] = "1"
    /\ oc_data[3] = "0"
    /\ oc_data[4] = "1"
    /\ OcOnesInBlock(1) = 1

\* C32: the unlock function of a lock acquisition is called exactly once:
\* never more than once, once when its notification is done (its callback
\* ran and no write of it is pending), and not before; and the mutex is
\* never free while a later notification is between its grant and its
\* unlock.
C32_UnlockExactlyOnce ==
    /\ \A id \in 1..MaxNotifs : oc_unlocks[id] <= 1
    /\ \A id \in 1..oc_count :
           LET queued  == \E i \in 1..Len(oc_mtxQueue) : oc_mtxQueue[i].id = id
               pending == \E i \in 1..Len(oc_inflight) : oc_inflight[i].id = id
           IN  /\ (~queued /\ ~pending) => oc_unlocks[id] = 1
               /\ (queued \/ id \in oc_inCS) => oc_unlocks[id] = 0
    /\ ~oc_mtxLocked => oc_inCS = {}

\* C33: a step that processes inbound data (a chunk from the device, or the
\* initial state at load) leaves the stored scalar as it was.  So when a line
\* changed the locked attribute and the notification of that change is
\* delivered, no other change of the attribute being owed or made meanwhile,
\* the symbol of the line differs from the scalar, is written to the device
\* once, and is the scalar from then on.
C33_InboundThenEcho ==
    /\ [][(lk_received' # lk_received \/ lk_loaded' # lk_loaded) =>
              lk_data' = lk_data]_vars
    /\ []((lk_lastOut # <<>> /\ lk_lastOut[1].line # <<>>
                             /\ lk_lastOut[1].alone) =>
              LET out == lk_lastOut[1]
              IN  /\ out.symbol = out.line
                  /\ out.scalarBefore # out.line
                  /\ lk_writes = Append(out.writesBefore, out.line)
                  /\ lk_data = out.line)

\* C33 witness: "1" had been written for the element; a line "0" from the
\* device removed the attribute, the scalar staying "1" until the
\* notification was delivered, which wrote "0" and stored it.
C33_Witness ==
    /\ lk_lastIn # <<>>
    /\ lk_lastIn[1].src = "device"
    /\ lk_lastIn[1].line = <<"0">>
    /\ lk_lastIn[1].scalar = <<"1">>
    /\ 0 \in lk_lastIn[1].lockedBefore
    /\ 0 \notin lk_lastIn[1].lockedAfter
    /\ lk_lastOut # <<>>
    /\ lk_lastOut[1].line = <<"0">>
    /\ lk_lastOut[1].alone
    /\ lk_lastOut[1].scalarBefore = <<"1">>
    /\ lk_writes = <<<<"1">>, <<"0">>>>
    /\ lk_data = <<"0">>
    /\ lk_notifs = <<>>

\* C34: this._currentMessage is the text of the write issued last, as it was
\* before truncation, and the empty text of the constructor while no write
\* was issued; so a notification of the message attribute delivered to a
\* ready binding with a text other than that of the last write issues a
\* write.
C34_CurrentIsLastWritten ==
    /\ tm_sent = <<>> => tm_currentMessage = <<>>
    /\ tm_sent # <<>> => tm_currentMessage = tm_sent[1]
    /\ (tm_last # <<>> /\ tm_deviceFile /\ tm_last[1].name = "message"
            /\ tm_last[1].sentBefore # <<tm_last[1].newMessage>>) =>
           Len(tm_writes) = Len(tm_last[1].writesBefore) + 1

\* The events dispatched to the element of channel i, in order.
IbEventsTo(i) ==
    LET RECURSIVE Sel(_)
        Sel(k) == IF k > Len(ib_events) THEN <<>>
                  ELSE IF ib_events[k].channel = i
                  THEN <<ib_events[k].type>> \o Sel(k + 1)
                  ELSE Sel(k + 1)
    IN  Sel(1)

\* C35: whatever lines over '0' and '1' were received, the events dispatched
\* to one associated element alternate between press and release: no event
\* of an element has the type of the event dispatched to it before.
C35_Alternation ==
    (\A k \in 1..Len(ib_lines) : \A j \in 1..Len(ib_lines[k]) :
         ib_lines[k][j] \in {"0", "1"}) =>
        \A i \in ib_elements :
            LET to == IbEventsTo(i)
            IN  \A k \in 2..Len(to) : to[k] # to[k - 1]

\* C36: after _parseColorsChannel the color map is never empty: a
\* colors-channel value without a non-empty entry (only ";" or whitespace)
\* gives the map white -> 0 of an absent attribute.
C36_MapNeverEmpty ==
    pc_parsed =>
        /\ DOMAIN pc_colorsChannel # {}
        /\ ColorEntries(SplitChar(PcGetAttribute, ";")) = <<>> =>
               pc_colorsChannel = [k \in {S_white} |-> 0]

=============================================================================
